---- MODULE Spec2Model ----
(***************************************************************************)
(* Model of the Dashboard page of the expense tracker: the data-loading    *)
(* routine fetchData with its month-to-month "Balance Carryover" step, the *)
(* month navigation handlers, and the remote tables (income, expenses,     *)
(* income_sources) the routine reads and writes through the gateway.       *)
(*                                                                         *)
(* Every `await` of fetchData is a suspension point, so each awaited       *)
(* gateway call is one action; the synchronous code that follows the call  *)
(* up to the next await belongs to the same action.  Several invocations   *)
(* of fetchData can be in flight at once: the effect re-runs whenever      *)
(* currentYear, currentMonth or accountTypes change and nothing cancels    *)
(* the earlier invocation.                                                 *)
(***************************************************************************)
EXTENDS Integers, Sequences, FiniteSets, TLC

(***************************************************************************)
(* Bounds of the model                                                     *)
(***************************************************************************)
\* number of fetchData invocations over one behaviour
MaxLoads == 3
\* number of invocations in flight at the same time
MaxInFlight == 2
\* the months the user can navigate to: NumPeriods months from FirstMonth of StartYear
StartYear == 2024
FirstMonth == 10
NumPeriods == 4

Loads == 1..MaxLoads

\* the signed-in user and another user whose rows share the tables
Me == "u1"
Other == "u2"

\* rows of the user's account_types table, in created_at order
UserAccountTypes == <<"SBI", "UNION">>

CarryoverName == "Balance Carryover"

\* id of the user's ordinary income source
SalaryId == 1

\* `sources?.id` when sources is null
Undefined == -1

(***************************************************************************)
(* Periods and dates                                                       *)
(***************************************************************************)
PeriodIdx(y, m) == y * 12 + (m - 1)
YearOf(p) == p \div 12
MonthOf(p) == (p % 12) + 1

FirstPeriod == PeriodIdx(StartYear, FirstMonth)
Window == FirstPeriod..(FirstPeriod + NumPeriods - 1)
InWindow(y, m) == m \in 1..12 /\ PeriodIdx(y, m) \in Window

\* a calendar date yyyy-mm-dd; ISO strings of equal length order as these numbers do
MkDate(y, m, d) == y * 10000 + m * 100 + d

\* `${currentYear}-${String(currentMonth).padStart(2, "0")}-01`
startDateOf(y, m) == MkDate(y, m, 1)

\* first day of the following month
endDateOf(y, m) ==
    LET nextMonth == IF m = 12 THEN 1 ELSE m + 1
        nextYear == IF m = 12 THEN y + 1 ELSE y
    IN  MkDate(nextYear, nextMonth, 1)

\* variant: the lookback starts two months back
prevStartTwoBack(y, m) ==
    LET p == PeriodIdx(y, m) - 2
    IN  MkDate(YearOf(p), MonthOf(p), 1)

\* first day of the preceding month
prevStartOf(y, m) ==
    LET prevMonth == IF m = 1 THEN 12 ELSE m - 1
        prevYear == IF m = 1 THEN y - 1 ELSE y
    IN  MkDate(prevYear, prevMonth, 1)

(***************************************************************************)
(* Sums over sets of rows                                                  *)
(***************************************************************************)
RECURSIVE SumAmount(_)
SumAmount(rows) ==
    IF rows = {} THEN 0
    ELSE LET r == CHOOSE x \in rows : TRUE
         IN  r.amount + SumAmount(rows \ {r})

(***************************************************************************)
(* State                                                                   *)
(***************************************************************************)
VARIABLES
    incomeTbl,      \* the income table of the data store (rows of every user)
    expenseTbl,     \* the expenses table
    sourceTbl,      \* the income_sources table
    nextId,         \* next id the store hands out to an inserted row
    currentYear,    \* Dashboard state: selected year
    currentMonth,   \* Dashboard state: selected month, 1..12
    accountTypes,   \* Dashboard state: the list returned by useAccountTypes
    income,         \* Dashboard state: displayed income rows
    expenses,       \* Dashboard state: displayed expense rows
    loading,        \* Dashboard state
    error,          \* Dashboard state: a message, or "null"
    fetch,          \* the invocations of fetchData: position and local variables
    started,        \* number of invocations of fetchData so far
    insertFailed    \* history: first days of the months whose batch insert failed

storeVars == <<incomeTbl, expenseTbl, sourceTbl, nextId>>
viewVars == <<currentYear, currentMonth, accountTypes, income, expenses, loading, error>>
vars == <<incomeTbl, expenseTbl, sourceTbl, nextId, currentYear, currentMonth,
          accountTypes, income, expenses, loading, error, fetch, started, insertFailed>>

\* state of the other pages and of the hooks
VARIABLES
    calls,           \* the gateway calls issued by the pages other than the Dashboard
    yearlyExpenses,  \* Yearly state: expenses, a list
    allExpenses,     \* Expenses state: expenses
    trackExpenses,   \* ExpenseTracking state: expenses, a list
    records,         \* IncomeTracking state: records, a list
    viewMode,        \* ExpenseTracking / IncomeTracking state: "monthly" or "yearly"
    selectedMonth,   \* ExpenseTracking / IncomeTracking state: <<year, month>>
    pageError,       \* error state of the page or form that ran last
    shown,           \* the values the last render derived from the page state
    route,           \* the page the router has mounted
    writes,          \* number of submit, save and delete handlers run so far
    sessionUser,     \* the user of the auth session while the last handler of a page ran
    currentPage,     \* ExpenseTracking state: the page of the list on display
    categories,      \* useExpenseCategories state: categories
    incomeSources,   \* useIncomeSources state: sources
    categoryTbl,     \* the categories table
    accountTypeTbl,  \* the account_types table
    hookUser,        \* the hooks' state: user
    hookError,       \* the hooks' state: error, or what an add call threw
    lastAdd,         \* the last add call of a hook: its input and what it did
    guard,           \* the ProtectedRoute instance: its state, its pending check, its output
    lastEvent,       \* the user carried by the last auth-state event, "none" before any
    hookFetch,       \* the mounted hook's fetches: the hook, its getUser call, the invocations
    sync             \* the Dashboard's handleSyncCarryover: its position and local variables

pageVars == <<calls, yearlyExpenses, allExpenses, trackExpenses, records, viewMode,
              selectedMonth, pageError, shown, route, writes, sessionUser,
              currentPage>>
hookVars == <<categories, incomeSources, categoryTbl, accountTypeTbl, hookUser, hookError,
              lastAdd, guard, lastEvent, hookFetch, sync>>
otherVars == <<pageVars, hookVars>>
allVars == <<vars, otherVars>>

NoError == "null"

\* an invocation of fetchData that has not started
IdleFetch ==
    [pc |-> "idle", year |-> 0, month |-> 0, accts |-> <<>>, sources |-> {},
     incomeData |-> {}, expenseData |-> {}, prevInc |-> {}, prevExp |-> {},
     carries |-> <<>>]

\* the invocation the effect starts: it closes over the rendered year, month and accountTypes
NewFetch(y, m, accts) ==
    [IdleFetch EXCEPT !.pc = "getUser", !.year = y, !.month = m, !.accts = accts]

\* an invocation that has returned; its local variables are gone
DoneFetch == [IdleFetch EXCEPT !.pc = "done"]

InFlight(f) == fetch[f].pc \notin {"idle", "done"}

(***************************************************************************)
(* The records the user entered before the Dashboard is opened             *)
(***************************************************************************)
\* (income, expenses) entered on one account in one month
Nothing == <<0, 0>>
Surplus == <<3, 1>>
Deficit == <<1, 2>>

\* what one month holds, per account type in the order of UserAccountTypes
MonthProfiles ==
    {<<Nothing, Nothing>>, <<Surplus, Deficit>>, <<Deficit, Surplus>>, <<Surplus, Surplus>>}

\* the months that hold entered records: the first two of the window
EnteredPeriods == {FirstPeriod, FirstPeriod + 1}

AccountIdx == 1..Len(UserAccountTypes)

ManualId(p, a, k) == 100 + (p - FirstPeriod) * 10 + a * 2 + k

ManualIncome(prof) ==
    {[id |-> ManualId(p, a, 0), user_id |-> Me, amount |-> prof[p][a][1],
      date |-> MkDate(YearOf(p), MonthOf(p), 15),
      account_type |-> UserAccountTypes[a], source_id |-> SalaryId] :
        <<p, a>> \in {pa \in EnteredPeriods \X AccountIdx : prof[pa[1]][pa[2]][1] > 0}}

ManualExpenses(prof) ==
    {[id |-> ManualId(p, a, 1), user_id |-> Me, amount |-> prof[p][a][2],
      date |-> MkDate(YearOf(p), MonthOf(p), 15),
      account_type |-> UserAccountTypes[a]] :
        <<p, a>> \in {pa \in EnteredPeriods \X AccountIdx : prof[pa[1]][pa[2]][2] > 0}}

\* rows of the other user: a carryover source of their own, income and an expense
OtherSourceId == 2
OtherIncome ==
    {[id |-> 190 + (p - FirstPeriod), user_id |-> Other, amount |-> 5,
      date |-> MkDate(YearOf(p), MonthOf(p), 1),
      account_type |-> UserAccountTypes[1], source_id |-> OtherSourceId] : p \in EnteredPeriods}
OtherExpenses ==
    {[id |-> 199, user_id |-> Other, amount |-> 1,
      date |-> MkDate(YearOf(FirstPeriod), MonthOf(FirstPeriod), 15),
      account_type |-> UserAccountTypes[1]]}

\* ProtectedRoute with its children rendered for a signed-in user, no check pending
GuardPassed ==
    [mounted |-> TRUE, loading |-> FALSE, authenticated |-> TRUE, check |-> "done",
     view |-> "children", mounts |-> 1, events |-> 0]

\* no hook has fetched
NoFetch == [hook |-> "none", asked |-> FALSE, chains |-> <<>>]

\* handleSyncCarryover before the button is clicked
NoSync ==
    [pc |-> "idle", year |-> 0, month |-> 0, source |-> {}, failed |-> FALSE, clicks |-> 0]

\* no add call of a hook has run
NoAdd == [hook |-> "none"]

\* nothing rendered yet
NoShown == [page |-> "none"]

\* the other pages before they are opened
PagesIdle ==
    /\ calls = {}
    /\ yearlyExpenses = <<>>
    /\ allExpenses = {}
    /\ trackExpenses = <<>>
    /\ records = <<>>
    /\ viewMode = "monthly"
    /\ selectedMonth = <<StartYear, FirstMonth>>
    /\ pageError = NoError
    /\ shown = NoShown
    /\ route = "Dashboard"
    /\ writes = 0
    /\ sessionUser = Me
    /\ currentPage = 1

\* the hooks after construction: useState([]), useState(null)
HooksIdle ==
    /\ categories = <<>>
    /\ incomeSources = <<>>
    /\ categoryTbl = {}
    /\ accountTypeTbl = {}
    /\ hookUser = "null"
    /\ hookError = NoError
    /\ lastAdd = NoAdd
    /\ guard = GuardPassed
    /\ lastEvent = "none"
    /\ hookFetch = NoFetch
    /\ sync = NoSync

Init ==
    /\ \E prof \in [EnteredPeriods -> MonthProfiles] :
        /\ incomeTbl = ManualIncome(prof) \cup OtherIncome
        /\ expenseTbl = ManualExpenses(prof) \cup OtherExpenses
    /\ sourceTbl = {[id |-> SalaryId, user_id |-> Me, name |-> "Salary"],
                    [id |-> OtherSourceId, user_id |-> Other, name |-> CarryoverName]}
    /\ nextId = 3
    /\ \E p \in Window : currentYear = YearOf(p) /\ currentMonth = MonthOf(p)
    /\ accountTypes = <<>>
    /\ income = {}
    /\ expenses = {}
    /\ loading = TRUE
    /\ error = NoError
    /\ started = 1
    /\ insertFailed = {}
    /\ fetch = [f \in Loads |->
                  IF f = 1 THEN NewFetch(currentYear, currentMonth, <<>>) ELSE IdleFetch]
    /\ PagesIdle
    /\ HooksIdle

(***************************************************************************)
(* The gateway's queries                                                   *)
(***************************************************************************)
\* from("income_sources").select().eq("user_id", u).eq("name", n).single():
\* the row when exactly one row matches, null (the empty set) otherwise
SingleSource(tbl, u, n) ==
    LET rows == {s \in tbl : s.user_id = u /\ s.name = n}
    IN  IF Cardinality(rows) = 1 THEN rows ELSE {}

\* from(table).select().eq("user_id", u).gte("date", from).lt("date", to)
RowsBetween(tbl, u, from, to) ==
    {r \in tbl : r.user_id = u /\ r.date >= from /\ r.date < to}

\* sources?.id
SourceIdOf(sources) ==
    IF sources = {} THEN Undefined ELSE (CHOOSE s \in sources : TRUE).id

\* variant: the test reads a field the rows do not have, so it never matches
hasCarryoverWrongField(incomeData, sources) ==
    \E inc \in incomeData : Undefined = SourceIdOf(sources) /\ inc.source_id = Undefined

\* (incomeData || []).some(inc => inc.source_id === sources?.id)
hasCarryover(incomeData, sources) ==
    \E inc \in incomeData : inc.source_id = SourceIdOf(sources)

\* variant: the test for the source is missing
runsCarryoverNoSourceCheck(incomeData, sources) ==
    ~hasCarryover(incomeData, sources)

\* if (!hasCarryover && sources)
runsCarryover(incomeData, sources) ==
    ~hasCarryover(incomeData, sources) /\ sources # {}

(***************************************************************************)
(* The carryover computation                                               *)
(***************************************************************************)
\* variant: the expenses are not subtracted
balIncomeOnly(prevInc, prevExp, acc) ==
    SumAmount({i \in prevInc : i.account_type = acc})

\* variant: the expenses of every account type are subtracted
balNetted(prevInc, prevExp, acc) ==
    SumAmount({i \in prevInc : i.account_type = acc}) - SumAmount(prevExp)

\* balance of one account type over the fetched rows of the preceding month
bal(prevInc, prevExp, acc) ==
    SumAmount({i \in prevInc : i.account_type = acc})
        - SumAmount({e \in prevExp : e.account_type = acc})

\* variant: every non-zero balance is carried
owedNonZero(b) == b # 0

\* if (bal > 0)
owed(b) == b > 0

\* the rows accountTypes.forEach pushes, in the order of accountTypes
RECURSIVE carriesOf(_, _, _, _, _)
carriesOf(accts, prevInc, prevExp, date, sourceId) ==
    IF accts = <<>> THEN <<>>
    ELSE LET acc == Head(accts)
             b == bal(prevInc, prevExp, acc)
             rest == carriesOf(Tail(accts), prevInc, prevExp, date, sourceId)
         IN  IF owed(b)
             THEN <<[user_id |-> Me, amount |-> b, date |-> date,
                     account_type |-> acc, source_id |-> sourceId]>> \o rest
             ELSE rest

\* the rows the store creates for one insert call: one per element, with fresh ids
InsertedRows(carries, firstId) ==
    {[id |-> firstId + k - 1, user_id |-> carries[k].user_id,
      amount |-> carries[k].amount, date |-> carries[k].date,
      account_type |-> carries[k].account_type,
      source_id |-> carries[k].source_id] : k \in 1..Len(carries)}

(***************************************************************************)
(* fetchData, one action per awaited call                                  *)
(***************************************************************************)
\* catch (err) { setError(...) } finally { setLoading(false) }
Throw(f, msg) ==
    /\ error' = msg
    /\ loading' = FALSE
    /\ fetch' = [fetch EXCEPT ![f] = DoneFetch]

\* finally { setLoading(false) } on the path without exception
Finish(f) ==
    /\ loading' = FALSE
    /\ fetch' = [fetch EXCEPT ![f] = DoneFetch]

\* await supabase.auth.getUser()
GetUser(f) ==
    /\ fetch[f].pc = "getUser"
    /\ \E signedIn \in BOOLEAN :
        IF signedIn
        THEN /\ fetch' = [fetch EXCEPT ![f].pc = "lookup"]
             /\ UNCHANGED <<loading, error>>
        ELSE Throw(f, "User not authenticated")
    /\ UNCHANGED <<storeVars, currentYear, currentMonth, accountTypes, income, expenses, started, insertFailed>>
    /\ UNCHANGED otherVars

\* the lookup of the "Balance Carryover" source
LookupSource(f) ==
    /\ fetch[f].pc = "lookup"
    /\ LET found == SingleSource(sourceTbl, Me, CarryoverName)
       IN  fetch' = [fetch EXCEPT ![f].sources = found,
                                  ![f].pc = IF found = {} THEN "create" ELSE "income"]
    /\ UNCHANGED <<storeVars, viewVars, started, insertFailed>>
    /\ UNCHANGED otherVars

\* the insert of the "Balance Carryover" source when the lookup returned nothing
CreateSource(f) ==
    /\ fetch[f].pc = "create"
    /\ \E createError \in BOOLEAN :
        IF ~createError
        THEN LET newSource == [id |-> nextId, user_id |-> Me, name |-> CarryoverName]
             IN  /\ sourceTbl' = sourceTbl \cup {newSource}
                 /\ nextId' = nextId + 1
                 /\ fetch' = [fetch EXCEPT ![f].sources = {newSource}, ![f].pc = "income"]
        ELSE /\ fetch' = [fetch EXCEPT ![f].pc = "income"]
             /\ UNCHANGED <<sourceTbl, nextId>>
    /\ UNCHANGED <<incomeTbl, expenseTbl, viewVars, started, insertFailed>>
    /\ UNCHANGED otherVars

\* the income query of the selected month
QueryIncome(f) ==
    /\ fetch[f].pc = "income"
    /\ \E incomeError \in BOOLEAN :
        IF ~incomeError
        THEN /\ fetch' = [fetch EXCEPT
                    ![f].incomeData = RowsBetween(incomeTbl, Me,
                                          startDateOf(fetch[f].year, fetch[f].month),
                                          endDateOf(fetch[f].year, fetch[f].month)),
                    ![f].pc = "expenses"]
             /\ UNCHANGED <<loading, error>>
        ELSE Throw(f, "Failed to fetch data")
    /\ UNCHANGED <<storeVars, currentYear, currentMonth, accountTypes, income, expenses, started, insertFailed>>
    /\ UNCHANGED otherVars

\* the expense query of the selected month, setIncome / setExpenses and the
\* decision whether the carryover step runs
QueryExpenses(f) ==
    /\ fetch[f].pc = "expenses"
    /\ \E expenseError \in BOOLEAN :
        IF ~expenseError
        THEN LET expenseData == RowsBetween(expenseTbl, Me,
                                    startDateOf(fetch[f].year, fetch[f].month),
                                    endDateOf(fetch[f].year, fetch[f].month))
             IN  /\ income' = fetch[f].incomeData
                 /\ expenses' = expenseData
                 /\ IF runsCarryover(fetch[f].incomeData, fetch[f].sources)
                    THEN /\ fetch' = [fetch EXCEPT ![f].expenseData = expenseData,
                                                    ![f].pc = "prevInc"]
                         /\ UNCHANGED loading
                    ELSE Finish(f)
                 /\ UNCHANGED error
        ELSE /\ Throw(f, "Failed to fetch data")
             /\ UNCHANGED <<income, expenses>>
    /\ UNCHANGED <<storeVars, currentYear, currentMonth, accountTypes, started, insertFailed>>
    /\ UNCHANGED otherVars

\* the income query of the preceding month
QueryPrevIncome(f) ==
    /\ fetch[f].pc = "prevInc"
    /\ fetch' = [fetch EXCEPT
            ![f].prevInc = RowsBetween(incomeTbl, Me,
                               prevStartOf(fetch[f].year, fetch[f].month),
                               startDateOf(fetch[f].year, fetch[f].month)),
            ![f].pc = "prevExp"]
    /\ UNCHANGED <<storeVars, viewVars, started, insertFailed>>
    /\ UNCHANGED otherVars

\* the expense query of the preceding month and the computation of carries
QueryPrevExpenses(f) ==
    /\ fetch[f].pc = "prevExp"
    /\ LET prevExp == RowsBetween(expenseTbl, Me,
                          prevStartOf(fetch[f].year, fetch[f].month),
                          startDateOf(fetch[f].year, fetch[f].month))
           carries == carriesOf(fetch[f].accts, fetch[f].prevInc, prevExp,
                          startDateOf(fetch[f].year, fetch[f].month),
                          SourceIdOf(fetch[f].sources))
       IN  IF Len(carries) > 0
           THEN /\ fetch' = [fetch EXCEPT ![f].prevExp = prevExp, ![f].carries = carries,
                                           ![f].pc = "insert"]
                /\ UNCHANGED loading
           ELSE Finish(f)
    /\ UNCHANGED <<storeVars, currentYear, currentMonth, accountTypes, income, expenses,
                   error, started, insertFailed>>
    /\ UNCHANGED otherVars

\* variant: a failed insert is thrown like the query errors are
onInsertErrorThrows(f) == Throw(f, "Failed to fetch data")

\* if (!insertError) { ... } has no else: the failure is dropped
onInsertError(f) ==
    /\ Finish(f)
    /\ UNCHANGED error

\* variant: the rows are sent one insert call each, and a failure leaves the first one
InsertCarriesOneByOne(f) ==
    /\ fetch[f].pc = "insert"
    /\ \E insertError \in BOOLEAN :
        IF ~insertError
        THEN /\ incomeTbl' = incomeTbl \cup InsertedRows(fetch[f].carries, nextId)
             /\ nextId' = nextId + Len(fetch[f].carries)
             /\ fetch' = [fetch EXCEPT ![f].pc = "refetch"]
             /\ UNCHANGED <<loading, error, insertFailed>>
        ELSE /\ onInsertError(f)
             /\ insertFailed' = insertFailed \cup
                    {startDateOf(fetch[f].year, fetch[f].month)}
             /\ incomeTbl' = incomeTbl \cup InsertedRows(<<Head(fetch[f].carries)>>, nextId)
             /\ nextId' = nextId + 1
    /\ UNCHANGED <<expenseTbl, sourceTbl, currentYear, currentMonth, accountTypes, income,
                   expenses, started>>
    /\ UNCHANGED otherVars

\* from("income").insert(carries): one call, all rows or none
InsertCarries(f) ==
    /\ fetch[f].pc = "insert"
    /\ \E insertError \in BOOLEAN :
        IF ~insertError
        THEN /\ incomeTbl' = incomeTbl \cup InsertedRows(fetch[f].carries, nextId)
             /\ nextId' = nextId + Len(fetch[f].carries)
             /\ fetch' = [fetch EXCEPT ![f].pc = "refetch"]
             /\ UNCHANGED <<loading, error, insertFailed>>
        ELSE /\ onInsertError(f)
             /\ insertFailed' = insertFailed \cup
                    {startDateOf(fetch[f].year, fetch[f].month)}
             /\ UNCHANGED <<incomeTbl, nextId>>
    /\ UNCHANGED <<expenseTbl, sourceTbl, currentYear, currentMonth, accountTypes, income,
                   expenses, started>>
    /\ UNCHANGED otherVars

\* the second income query of the selected month and setIncome(newIncome || []):
\* only data is read from the response, and a failed query has data null
Refetch(f) ==
    /\ fetch[f].pc = "refetch"
    /\ \E refetchError \in BOOLEAN :
        income' = IF refetchError
                  THEN {}
                  ELSE RowsBetween(incomeTbl, Me,
                           startDateOf(fetch[f].year, fetch[f].month),
                           endDateOf(fetch[f].year, fetch[f].month))
    /\ Finish(f)
    /\ UNCHANGED <<storeVars, currentYear, currentMonth, accountTypes, expenses, error, started, insertFailed>>
    /\ UNCHANGED otherVars

(***************************************************************************)
(* What re-runs the effect                                                 *)
(***************************************************************************)
\* useEffect(..., [currentYear, currentMonth, accountTypes]): a new invocation
\* of fetchData; setLoading(true); setError(null)
RunEffect(y, m, accts) ==
    /\ started < MaxLoads
    /\ Cardinality({f \in Loads : InFlight(f)}) < MaxInFlight
    /\ started' = started + 1
    /\ fetch' = [fetch EXCEPT ![started + 1] = NewFetch(y, m, accts)]
    /\ loading' = TRUE
    /\ error' = NoError
    /\ UNCHANGED otherVars

\* variant: the month before January is not wrapped
PrevMonthOfNoWrap(y, m) == <<y, m - 1>>

\* the <<year, month>> handlePrevMonth sets
PrevMonthOf(y, m) == IF m = 1 THEN <<y - 1, 12>> ELSE <<y, m - 1>>

\* the <<year, month>> handleNextMonth sets
NextMonthOf(y, m) == IF m = 12 THEN <<y + 1, 1>> ELSE <<y, m + 1>>

handlePrevMonth ==
    LET m == PrevMonthOf(currentYear, currentMonth)[2]
        y == PrevMonthOf(currentYear, currentMonth)[1]
    IN  /\ InWindow(y, m)
        /\ currentMonth' = m
        /\ currentYear' = y
        /\ RunEffect(y, m, accountTypes)
        /\ UNCHANGED <<storeVars, accountTypes, income, expenses, insertFailed>>

handleNextMonth ==
    LET m == NextMonthOf(currentYear, currentMonth)[2]
        y == NextMonthOf(currentYear, currentMonth)[1]
    IN  /\ InWindow(y, m)
        /\ currentMonth' = m
        /\ currentYear' = y
        /\ RunEffect(y, m, accountTypes)
        /\ UNCHANGED <<storeVars, accountTypes, income, expenses, insertFailed>>

\* the month <select>: setCurrentMonth(parseInt(e.target.value))
SelectMonth(m) ==
    /\ m # currentMonth
    /\ InWindow(currentYear, m)
    /\ currentMonth' = m
    /\ RunEffect(currentYear, m, accountTypes)
    /\ UNCHANGED <<storeVars, currentYear, accountTypes, income, expenses, insertFailed>>

\* useAccountTypes finishes a fetch: setAccountTypes(types) hands the Dashboard
\* a new array, so the effect runs again for the same month
AccountTypesFetched ==
    /\ accountTypes' = UserAccountTypes
    /\ RunEffect(currentYear, currentMonth, UserAccountTypes)
    /\ UNCHANGED <<storeVars, currentYear, currentMonth, income, expenses, insertFailed>>

Step(f) ==
    \/ GetUser(f)
    \/ LookupSource(f)
    \/ CreateSource(f)
    \/ QueryIncome(f)
    \/ QueryExpenses(f)
    \/ QueryPrevIncome(f)
    \/ QueryPrevExpenses(f)
    \/ InsertCarries(f)
    \/ Refetch(f)

Next ==
    \/ \E f \in Loads : Step(f)
    \/ handlePrevMonth
    \/ handleNextMonth
    \/ \E m \in 1..12 : SelectMonth(m)
    \/ AccountTypesFetched

Spec == Init /\ [][Next]_vars

(***************************************************************************)
(* One invocation at a time: the effect re-runs only after the previous    *)
(* invocation of fetchData has returned                                    *)
(***************************************************************************)
Quiet == \A f \in Loads : ~InFlight(f)

SeqPrevMonth == Quiet /\ handlePrevMonth
SeqNextMonth == Quiet /\ handleNextMonth
SeqSelectMonth(m) == Quiet /\ SelectMonth(m)
SeqAccountTypesFetched == Quiet /\ AccountTypesFetched

SeqNext ==
    \/ \E f \in Loads : Step(f)
    \/ SeqPrevMonth
    \/ SeqNextMonth
    \/ \E m \in 1..12 : SeqSelectMonth(m)
    \/ SeqAccountTypesFetched

SeqSpec == Init /\ [][SeqNext]_vars

(***************************************************************************)
(* The Dashboard's "Sync Balance" button: handleSyncCarryover, one action   *)
(* per awaited call.  The user does nothing else while the handler runs.   *)
(***************************************************************************)
\* largest number of clicks on the button
MaxSyncs == 1

\* the month new Date() names whenever the page loads
TodayPeriod == FirstPeriod + 2

syncFrame == <<pageVars, categories, incomeSources, categoryTbl, accountTypeTbl, hookUser,
               hookError, lastAdd, guard, lastEvent, hookFetch>>

\* no call of handleSyncCarryover is under way
SyncIdle == sync.pc \in {"idle", "returned", "reloaded"}

\* the click: await supabase.auth.getUser(); if (!user) return.  The closure
\* holds the currentYear and currentMonth of the render that drew the button
SyncGetUser ==
    /\ Quiet
    /\ SyncIdle
    /\ sync.clicks < MaxSyncs
    /\ \E signedIn \in BOOLEAN :
        sync' = [pc |-> IF signedIn THEN "lookup" ELSE "returned",
                 year |-> currentYear, month |-> currentMonth, source |-> {},
                 failed |-> FALSE, clicks |-> sync.clicks + 1]
    /\ UNCHANGED <<vars, syncFrame>>

\* the lookup of the "Balance Carryover" source; if (!source) return
SyncLookupSource ==
    /\ sync.pc = "lookup"
    /\ LET found == SingleSource(sourceTbl, Me, CarryoverName)
       IN  sync' = [sync EXCEPT !.source = found,
                                !.pc = IF found = {} THEN "returned" ELSE "delete"]
    /\ UNCHANGED <<vars, syncFrame>>

\* the rows the delete names: eq("user_id"), eq("source_id"), eq("date", startDate)
SyncTarget(tbl) ==
    {r \in tbl : /\ r.user_id = Me
                 /\ r.source_id = SourceIdOf(sync.source)
                 /\ r.date = startDateOf(sync.year, sync.month)}

\* the delete returns, its result is not read; window.location.reload() then
\* loads the page anew: the Dashboard starts from its useState initial values,
\* the month of new Date() and an empty list of account types
SyncDeleteAndReload ==
    /\ sync.pc = "delete"
    /\ \E failed \in BOOLEAN :
        /\ incomeTbl' = IF failed THEN incomeTbl ELSE incomeTbl \ SyncTarget(incomeTbl)
        /\ sync' = [sync EXCEPT !.pc = "reloaded", !.failed = failed]
    /\ currentYear' = YearOf(TodayPeriod)
    /\ currentMonth' = MonthOf(TodayPeriod)
    /\ accountTypes' = <<>>
    /\ income' = {}
    /\ expenses' = {}
    /\ loading' = TRUE
    /\ error' = NoError
    /\ started' = 1
    /\ fetch' = [f \in Loads |->
                   IF f = 1 THEN NewFetch(YearOf(TodayPeriod), MonthOf(TodayPeriod), <<>>)
                   ELSE IdleFetch]
    /\ UNCHANGED <<expenseTbl, sourceTbl, nextId, insertFailed, syncFrame>>

SyncPrevMonth == SyncIdle /\ SeqPrevMonth
SyncNextMonth == SyncIdle /\ SeqNextMonth
SyncAccountTypesFetched == SyncIdle /\ SeqAccountTypesFetched

SyncInit == Init /\ PeriodIdx(currentYear, currentMonth) = TodayPeriod

SyncNext ==
    \/ \E f \in Loads : Step(f)
    \/ SyncPrevMonth
    \/ SyncNextMonth
    \/ SyncAccountTypesFetched
    \/ SyncGetUser
    \/ SyncLookupSource
    \/ SyncDeleteAndReload

SyncSpec == SyncInit /\ [][SyncNext]_allVars

(***************************************************************************)
(* The pages beside the Dashboard: Yearly, Expenses, ExpenseTracking,      *)
(* IncomeTracking and the two forms.  A handler is one action: the page    *)
(* runs one handler at a time.                                             *)
(***************************************************************************)
\* number of submit, save and delete handlers run over one behaviour
MaxWrites == 1

\* what a month holds when another page is opened (see MonthProfiles)
PageProfiles == {<<Nothing, Nothing>>, <<Surplus, Deficit>>}

dashVars == <<viewVars, fetch, started, insertFailed>>

\* new Date(year, month, 0).getDate()
DaysIn(y, m) ==
    IF m \in {4, 6, 9, 11} THEN 30
    ELSE IF m # 2 THEN 31
    ELSE IF (y % 4 = 0 /\ y % 100 # 0) \/ y % 400 = 0 THEN 29 ELSE 28

\* new Date(year, month, 0).toISOString().split("T")[0]: local midnight of the
\* last day, printed in UTC; east of Greenwich that instant is on the day before
endDateISO(y, m, east) ==
    MkDate(y, m, IF east THEN DaysIn(y, m) - 1 ELSE DaysIn(y, m))

\* one call to the gateway: the table, the operation, whether the call names the
\* user (an eq("user_id", ...) filter, or the user_id field of the row sent) and
\* the amount of the row sent
Call(page, table, op, byUser, amount) ==
    [page |-> page, table |-> table, op |-> op, byUser |-> byUser, amount |-> amount]

\* from(table).select().gte("date", from).lte("date", to): no filter on the user
RowsWithin(tbl, from, to) == {r \in tbl : r.date >= from /\ r.date <= to}

\* .order("date", { ascending: false }): the lists the store may return for
\* rows; rows of one date come in any order
RECURSIVE OrderedByDateDesc(_)
OrderedByDateDesc(rows) ==
    IF rows = {} THEN {<<>>}
    ELSE LET latest == {r \in rows : \A x \in rows : x.date <= r.date}
         IN  UNION {{<<r>> \o s : s \in OrderedByDateDesc(rows \ {r})} : r \in latest}

\* what the user may have typed into an amount field
FormAmounts == {"", "0", "-1", "2"}

\* Number(form.amount)
NumberOf(s) ==
    CASE s = "" -> 0
      [] s = "0" -> 0
      [] s = "-1" -> -1
      [] s = "2" -> 2

\* the dates a form or an edit may carry
FormDates == {MkDate(StartYear, FirstMonth, DaysIn(StartYear, FirstMonth))}

\* the store and the Dashboard when another page is opened
PagesInit ==
    /\ \E prof \in [EnteredPeriods -> PageProfiles] :
        /\ incomeTbl = ManualIncome(prof) \cup OtherIncome
        /\ expenseTbl = ManualExpenses(prof) \cup OtherExpenses
    /\ sourceTbl = {[id |-> SalaryId, user_id |-> Me, name |-> "Salary"],
                    [id |-> OtherSourceId, user_id |-> Other, name |-> CarryoverName]}
    /\ nextId = 3
    /\ currentYear = StartYear
    /\ currentMonth = FirstMonth
    /\ accountTypes = UserAccountTypes
    /\ income = {}
    /\ expenses = {}
    /\ loading = FALSE
    /\ error = NoError
    /\ started = 0
    /\ insertFailed = {}
    /\ fetch = [f \in Loads |-> IdleFetch]
    /\ PagesIdle
    /\ HooksIdle

\* Yearly.fetchExpenses for the selected year
YearlyFetchExpenses(year) ==
    \E signedIn \in BOOLEAN :
    /\ sessionUser' = (IF signedIn THEN Me ELSE "null")
    /\ route = "Yearly"
    /\ calls' = {Call("Yearly", "expenses", "select", FALSE, 0)}
    /\ \E failed \in BOOLEAN :
        IF failed
        THEN /\ pageError' = "Failed to fetch expenses"
             /\ UNCHANGED yearlyExpenses
        ELSE /\ yearlyExpenses' \in OrderedByDateDesc(
                    RowsWithin(expenseTbl, MkDate(year, 1, 1), MkDate(year, 12, 31)))
             /\ pageError' = NoError
    /\ UNCHANGED <<currentPage, storeVars, dashVars, hookVars, allExpenses, trackExpenses, records,
                   viewMode, selectedMonth, shown, route, writes>>

\* Expenses.fetchData: the categories and the expenses, neither query filtered
ExpensesFetchData ==
    \E signedIn \in BOOLEAN :
    /\ sessionUser' = (IF signedIn THEN Me ELSE "null")
    /\ route = "Expenses"
    /\ calls' = {Call("Expenses", "categories", "select", FALSE, 0),
                            Call("Expenses", "expenses", "select", FALSE, 0)}
    /\ \E failed \in BOOLEAN :
        IF failed
        THEN /\ pageError' = "Failed to fetch data"
             /\ UNCHANGED allExpenses
        ELSE /\ allExpenses' = expenseTbl
             /\ pageError' = NoError
    /\ UNCHANGED <<currentPage, storeVars, dashVars, hookVars, yearlyExpenses, trackExpenses, records,
                   viewMode, selectedMonth, shown, route, writes>>

\* Expenses.handleDelete of a listed row, confirmed: delete().eq("id", id), then
\* the list is fetched again
ExpensesHandleDelete(id) ==
    \E signedIn \in BOOLEAN :
    /\ sessionUser' = (IF signedIn THEN Me ELSE "null")
    /\ writes < MaxWrites
    /\ writes' = writes + 1
    /\ route = "Expenses"
    /\ id \in {r.id : r \in allExpenses}
    /\ calls' = {Call("Expenses", "expenses", "delete", FALSE, 0),
                            Call("Expenses", "categories", "select", FALSE, 0),
                            Call("Expenses", "expenses", "select", FALSE, 0)}
    /\ \E failed \in BOOLEAN :
        IF failed
        THEN /\ pageError' = "Failed to delete expense"
             /\ UNCHANGED <<expenseTbl, allExpenses>>
        ELSE /\ expenseTbl' = {r \in expenseTbl : r.id # id}
             /\ allExpenses' = expenseTbl'
             /\ pageError' = NoError
    /\ UNCHANGED <<currentPage, incomeTbl, sourceTbl, nextId, dashVars, hookVars, yearlyExpenses,
                   trackExpenses, records, viewMode, selectedMonth, shown, route>>

\* the rows ExpenseTracking.fetchData asks for: the closed range from the first
\* day to endDate
TrackedExpenses(tbl, mode, ym, east) ==
    LET startDate == IF mode = "monthly" THEN MkDate(ym[1], ym[2], 1)
                     ELSE MkDate(ym[1], 1, 1)
        endDate == IF mode = "monthly" THEN endDateISO(ym[1], ym[2], east)
                   ELSE MkDate(ym[1], 12, 31)
    IN  {r \in RowsWithin(tbl, startDate, endDate) : r.user_id = Me}

\* the rows IncomeTracking.fetchRecords asks for: from the first day up to, not
\* including, the first day of the next month or year
TrackedIncome(tbl, mode, ym) ==
    LET startDate == IF mode = "monthly" THEN MkDate(ym[1], ym[2], 1)
                     ELSE MkDate(ym[1], 1, 1)
        endDate == IF mode = "monthly" THEN endDateOf(ym[1], ym[2])
                   ELSE MkDate(ym[1] + 1, 1, 1)
    IN  RowsBetween(tbl, Me, startDate, endDate)

ExpenseTrackingCalls ==
    {Call("ExpenseTracking", "categories", "select", TRUE, 0),
     Call("ExpenseTracking", "expenses", "select", TRUE, 0)}

IncomeTrackingCalls ==
    {Call("IncomeTracking", "income_sources", "select", TRUE, 0),
     Call("IncomeTracking", "income", "select", TRUE, 0)}

\* ExpenseTracking.fetchData as the effect runs it for a view mode and a month
ExpenseTrackingFetchData(mode, ym) ==
    \E signedIn \in BOOLEAN :
    /\ sessionUser' = (IF signedIn THEN Me ELSE "null")
    /\ route = "ExpenseTracking"
    /\ viewMode' = mode
    /\ selectedMonth' = ym
    /\ currentPage' = (IF mode # viewMode \/ ym # selectedMonth THEN 1 ELSE currentPage)
    /\ \E failed, east \in BOOLEAN :
        IF ~signedIn
        THEN /\ pageError' = "User not authenticated"
             /\ UNCHANGED <<trackExpenses>>
             /\ calls' = {}
        ELSE /\ calls' = ExpenseTrackingCalls
             /\ IF failed
                THEN /\ pageError' = "Failed to fetch expenses"
                     /\ UNCHANGED trackExpenses
                ELSE /\ trackExpenses' \in
                            OrderedByDateDesc(TrackedExpenses(expenseTbl, mode, ym, east))
                     /\ pageError' = NoError
    /\ UNCHANGED <<storeVars, dashVars, hookVars, yearlyExpenses, allExpenses, records, shown, route, writes>>

\* ExpenseTracking.handleDelete of a listed row, confirmed
ExpenseTrackingHandleDelete(id) ==
    \E signedIn \in BOOLEAN :
    /\ sessionUser' = (IF signedIn THEN Me ELSE "null")
    /\ writes < MaxWrites
    /\ writes' = writes + 1
    /\ route = "ExpenseTracking"
    /\ id \in {trackExpenses[k].id : k \in 1..Len(trackExpenses)}
    /\ \E failed \in BOOLEAN :
        IF ~signedIn
        THEN /\ pageError' = "User not authenticated"
             /\ UNCHANGED <<expenseTbl, trackExpenses>>
             /\ calls' = {}
        ELSE /\ calls' = {Call("ExpenseTracking", "expenses", "delete", TRUE, 0)}
             /\ IF failed
                THEN /\ pageError' = "Failed to delete expense"
                     /\ UNCHANGED <<expenseTbl, trackExpenses>>
                ELSE /\ expenseTbl' = {r \in expenseTbl : ~(r.id = id /\ r.user_id = Me)}
                     /\ trackExpenses' = SelectSeq(trackExpenses, LAMBDA e : e.id # id)
                     /\ pageError' = NoError
    /\ UNCHANGED <<currentPage, incomeTbl, sourceTbl, nextId, dashVars, hookVars, yearlyExpenses,
                   allExpenses, records, viewMode, selectedMonth, shown, route>>

\* ExpenseTracking.handleSave of the edited row with the amount typed, followed
\* by the fetchData() it calls to refresh the list
ExpenseTrackingHandleSave(id, amount) ==
    \E signedIn \in BOOLEAN :
    /\ sessionUser' = (IF signedIn THEN Me ELSE "null")
    /\ writes < MaxWrites
    /\ writes' = writes + 1
    /\ route = "ExpenseTracking"
    /\ id \in {trackExpenses[k].id : k \in 1..Len(trackExpenses)}
    /\ IF amount = "" \/ NumberOf(amount) <= 0
       THEN /\ pageError' = "Please provide a valid item name and amount."
            /\ UNCHANGED <<expenseTbl, trackExpenses>>
            /\ calls' = {}
       ELSE \E failed, refreshFailed, east \in BOOLEAN :
            IF ~signedIn
            THEN /\ pageError' = "User not authenticated"
                 /\ UNCHANGED <<expenseTbl, trackExpenses>>
                 /\ calls' = {}
            ELSE IF failed
            THEN /\ pageError' = "Failed to update expense"
                 /\ calls' =
                        {Call("ExpenseTracking", "expenses", "update", TRUE, NumberOf(amount))}
                 /\ UNCHANGED <<expenseTbl, trackExpenses>>
            ELSE /\ calls' = ExpenseTrackingCalls \cup
                        {Call("ExpenseTracking", "expenses", "update", TRUE, NumberOf(amount))}
                 /\ expenseTbl' = {IF r.id = id /\ r.user_id = Me
                                    THEN [r EXCEPT !.amount = NumberOf(amount)]
                                    ELSE r : r \in expenseTbl}
                 /\ IF refreshFailed
                    THEN /\ pageError' = "Failed to fetch expenses"
                         /\ UNCHANGED trackExpenses
                    ELSE /\ trackExpenses' \in OrderedByDateDesc(
                                TrackedExpenses(expenseTbl', viewMode, selectedMonth, east))
                         /\ pageError' = NoError
    /\ UNCHANGED <<currentPage, incomeTbl, sourceTbl, nextId, dashVars, hookVars, yearlyExpenses,
                   allExpenses, records, viewMode, selectedMonth, shown, route>>

\* IncomeTracking.fetchRecords as the effect runs it for a view mode and a month
IncomeTrackingFetchRecords(mode, ym) ==
    \E signedIn \in BOOLEAN :
    /\ sessionUser' = (IF signedIn THEN Me ELSE "null")
    /\ route = "IncomeTracking"
    /\ viewMode' = mode
    /\ selectedMonth' = ym
    /\ \E failed \in BOOLEAN :
        IF ~signedIn
        THEN /\ pageError' = "User not authenticated"
             /\ UNCHANGED <<records>>
             /\ calls' = {}
        ELSE /\ calls' = IncomeTrackingCalls
             /\ IF failed
                THEN /\ pageError' = "Failed to fetch income"
                     /\ UNCHANGED records
                ELSE /\ records' \in OrderedByDateDesc(TrackedIncome(incomeTbl, mode, ym))
                     /\ pageError' = NoError
    /\ UNCHANGED <<currentPage, storeVars, dashVars, hookVars, yearlyExpenses, allExpenses,
                   trackExpenses, shown, route, writes>>

\* IncomeTracking.handleSave of the edited row with the amount typed, followed by
\* the fetchRecords() it calls to refresh the list
IncomeTrackingHandleSave(id, amount) ==
    \E signedIn \in BOOLEAN :
    /\ sessionUser' = (IF signedIn THEN Me ELSE "null")
    /\ writes < MaxWrites
    /\ writes' = writes + 1
    /\ route = "IncomeTracking"
    /\ id \in {records[k].id : k \in 1..Len(records)}
    /\ IF amount = "" \/ NumberOf(amount) <= 0
       THEN /\ pageError' = "Please select a source and provide a valid amount."
            /\ UNCHANGED <<incomeTbl, records>>
            /\ calls' = {}
       ELSE \E failed, refreshFailed \in BOOLEAN :
            IF ~signedIn
            THEN /\ pageError' = "User not authenticated"
                 /\ UNCHANGED <<incomeTbl, records>>
                 /\ calls' = {}
            ELSE IF failed
            THEN /\ pageError' = "Failed to update income"
                 /\ calls' =
                        {Call("IncomeTracking", "income", "update", TRUE, NumberOf(amount))}
                 /\ UNCHANGED <<incomeTbl, records>>
            ELSE /\ calls' = IncomeTrackingCalls \cup
                        {Call("IncomeTracking", "income", "update", TRUE, NumberOf(amount))}
                 /\ incomeTbl' = {IF r.id = id /\ r.user_id = Me
                                   THEN [r EXCEPT !.amount = NumberOf(amount)]
                                   ELSE r : r \in incomeTbl}
                 /\ IF refreshFailed
                    THEN /\ pageError' = "Failed to fetch income"
                         /\ UNCHANGED records
                    ELSE /\ records' \in OrderedByDateDesc(
                                TrackedIncome(incomeTbl', viewMode, selectedMonth))
                         /\ pageError' = NoError
    /\ UNCHANGED <<currentPage, expenseTbl, sourceTbl, nextId, dashVars, hookVars, yearlyExpenses,
                   allExpenses, trackExpenses, viewMode, selectedMonth, shown, route>>

\* AddExpense.handleSubmit with the amount typed; the amount field is
\* type="number" and required, with no min
AddExpenseHandleSubmit(amount, date, hasCategory) ==
    \E signedIn \in BOOLEAN :
    /\ sessionUser' = (IF signedIn THEN Me ELSE "null")
    /\ writes < MaxWrites
    /\ writes' = writes + 1
    /\ route = "AddExpense"
    /\ IF amount = ""
       THEN /\ pageError' = "Amount and Date are required"
            /\ UNCHANGED <<expenseTbl, nextId>>
            /\ calls' = {}
       ELSE IF ~hasCategory
       THEN /\ pageError' = "Please select a category"
            /\ UNCHANGED <<expenseTbl, nextId>>
            /\ calls' = {}
       ELSE \E failed \in BOOLEAN :
            IF ~signedIn
            THEN /\ pageError' = "You must be logged in to add expenses"
                 /\ UNCHANGED <<expenseTbl, nextId>>
                 /\ calls' = {}
            ELSE /\ calls' =
                        {Call("AddExpense", "expenses", "insert", TRUE, NumberOf(amount))}
                 /\ IF failed
                    THEN /\ pageError' = "Something went wrong"
                         /\ UNCHANGED <<expenseTbl, nextId>>
                    ELSE /\ expenseTbl' = expenseTbl \cup
                                {[id |-> nextId, user_id |-> Me, amount |-> NumberOf(amount),
                                  date |-> date, account_type |-> UserAccountTypes[1]]}
                         /\ nextId' = nextId + 1
                         /\ pageError' = NoError
    /\ UNCHANGED <<currentPage, incomeTbl, sourceTbl, dashVars, hookVars, yearlyExpenses, allExpenses,
                   trackExpenses, records, viewMode, selectedMonth, shown, route>>

\* AddIncome.handleSubmit with the amount typed; the amount field is
\* type="number", required and min="0", so the browser submits no other value;
\* the row sent has no user_id
AddIncomeHandleSubmit(amount, date) ==
    \E signedIn \in BOOLEAN :
    /\ sessionUser' = (IF signedIn THEN Me ELSE "null")
    /\ writes < MaxWrites
    /\ writes' = writes + 1
    /\ route = "AddIncome"
    /\ amount # ""
    /\ NumberOf(amount) >= 0
    /\ calls' = {Call("AddIncome", "income", "insert", FALSE, NumberOf(amount))}
    /\ \E failed \in BOOLEAN :
        IF failed
        THEN /\ pageError' = "Something went wrong"
             /\ UNCHANGED <<incomeTbl, nextId>>
        ELSE /\ incomeTbl' = incomeTbl \cup
                    {[id |-> nextId, user_id |-> Me, amount |-> NumberOf(amount),
                      date |-> date, account_type |-> UserAccountTypes[1],
                      source_id |-> SalaryId]}
             /\ nextId' = nextId + 1
             /\ pageError' = NoError
    /\ UNCHANGED <<currentPage, expenseTbl, sourceTbl, dashVars, hookVars, yearlyExpenses, allExpenses,
                   trackExpenses, records, viewMode, selectedMonth, shown, route>>

ViewModes == {"monthly", "yearly"}

\* the months the tracking pages are opened on: the months that hold entered rows
TrackedMonths == {<<YearOf(p), MonthOf(p)>> : p \in EnteredPeriods}

Routes == {"Yearly", "Expenses", "ExpenseTracking", "IncomeTracking", "AddExpense", "AddIncome"}

\* the router mounts another page: the page that was open is unmounted and the
\* new page starts from its useState initial values
Navigate(page) ==
    /\ route # page
    /\ route' = page
    /\ calls' = {}
    /\ yearlyExpenses' = <<>>
    /\ allExpenses' = {}
    /\ trackExpenses' = <<>>
    /\ records' = <<>>
    /\ viewMode' = "monthly"
    /\ selectedMonth' = <<StartYear, FirstMonth>>
    /\ pageError' = NoError
    /\ sessionUser' = Me
    /\ currentPage' = 1
    /\ UNCHANGED <<storeVars, dashVars, hookVars, shown, writes>>

PagesNext ==
    \/ \E page \in Routes : Navigate(page)
    \/ YearlyFetchExpenses(StartYear)
    \/ ExpensesFetchData
    \/ \E id \in {r.id : r \in expenseTbl} : ExpensesHandleDelete(id)
    \/ \E mode \in ViewModes, ym \in TrackedMonths : ExpenseTrackingFetchData(mode, ym)
    \/ \E id \in {r.id : r \in expenseTbl} : ExpenseTrackingHandleDelete(id)
    \/ \E id \in {r.id : r \in expenseTbl}, amount \in FormAmounts :
          ExpenseTrackingHandleSave(id, amount)
    \/ \E mode \in ViewModes, ym \in TrackedMonths : IncomeTrackingFetchRecords(mode, ym)
    \/ \E id \in {r.id : r \in incomeTbl}, amount \in FormAmounts :
          IncomeTrackingHandleSave(id, amount)
    \/ \E amount \in FormAmounts, date \in FormDates, hasCategory \in BOOLEAN :
          AddExpenseHandleSubmit(amount, date, hasCategory)
    \/ \E amount \in FormAmounts, date \in FormDates : AddIncomeHandleSubmit(amount, date)

PagesSpec == PagesInit /\ [][PagesNext]_allVars

(***************************************************************************)
(* ExpenseTracking: the pagination of the list                             *)
(***************************************************************************)
\* largest number of expenses the user has in one month
MaxListed == 17

\* const recordsPerPage = 15
recordsPerPage == 15

\* Math.ceil(expenses.length / recordsPerPage)
totalPages(list) == (Len(list) + recordsPerPage - 1) \div recordsPerPage

\* expenses.slice(indexOfFirstRecord, indexOfLastRecord)
currentExpenses(list, page) ==
    LET indexOfLastRecord == page * recordsPerPage
        indexOfFirstRecord == indexOfLastRecord - recordsPerPage
    IN  [k \in 1..(IF indexOfLastRecord < Len(list) THEN recordsPerPage
                   ELSE IF Len(list) > indexOfFirstRecord
                        THEN Len(list) - indexOfFirstRecord ELSE 0)
            |-> list[indexOfFirstRecord + k]]

\* the Prev button, drawn when totalPages > 1 and enabled off the first page:
\* setCurrentPage(prev => Math.max(prev - 1, 1))
ExpenseTrackingPrevPage ==
    /\ route = "ExpenseTracking"
    /\ totalPages(trackExpenses) > 1
    /\ currentPage # 1
    /\ currentPage' = (IF currentPage - 1 > 1 THEN currentPage - 1 ELSE 1)
    /\ UNCHANGED <<vars, hookVars, calls, yearlyExpenses, allExpenses, trackExpenses, records,
                   viewMode, selectedMonth, pageError, shown, route, writes, sessionUser>>

\* the Next button, drawn when totalPages > 1 and enabled off the last page:
\* setCurrentPage(prev => Math.min(prev + 1, totalPages))
ExpenseTrackingNextPage ==
    /\ route = "ExpenseTracking"
    /\ totalPages(trackExpenses) > 1
    /\ currentPage # totalPages(trackExpenses)
    /\ currentPage' = (IF currentPage + 1 < totalPages(trackExpenses)
                       THEN currentPage + 1 ELSE totalPages(trackExpenses))
    /\ UNCHANGED <<vars, hookVars, calls, yearlyExpenses, allExpenses, trackExpenses, records,
                   viewMode, selectedMonth, pageError, shown, route, writes, sessionUser>>

\* n expenses of the user in period p, one a day
ListedExpenses(p, n) ==
    {[id |-> 200 + (p - FirstPeriod) * 40 + d, user_id |-> Me, amount |-> 1,
      date |-> MkDate(YearOf(p), MonthOf(p), d),
      account_type |-> UserAccountTypes[1]] : d \in 1..n}

\* ExpenseTracking after the load of its mount, over a store with a month of
\* more than one page
PagerInit ==
    /\ \E n \in {0} \cup (recordsPerPage..MaxListed), k \in {1, recordsPerPage + 1} :
        expenseTbl = ListedExpenses(FirstPeriod, n) \cup ListedExpenses(FirstPeriod + 1, k)
                        \cup OtherExpenses
    /\ incomeTbl = OtherIncome
    /\ sourceTbl = {[id |-> SalaryId, user_id |-> Me, name |-> "Salary"],
                    [id |-> OtherSourceId, user_id |-> Other, name |-> CarryoverName]}
    /\ nextId = 3
    /\ currentYear = StartYear
    /\ currentMonth = FirstMonth
    /\ accountTypes = UserAccountTypes
    /\ income = {}
    /\ expenses = {}
    /\ loading = FALSE
    /\ error = NoError
    /\ started = 0
    /\ insertFailed = {}
    /\ fetch = [f \in Loads |-> IdleFetch]
    /\ calls = {}
    /\ yearlyExpenses = <<>>
    /\ allExpenses = {}
    /\ trackExpenses \in OrderedByDateDesc(
            TrackedExpenses(expenseTbl, "monthly", <<StartYear, FirstMonth>>, FALSE))
    /\ records = <<>>
    /\ viewMode = "monthly"
    /\ selectedMonth = <<StartYear, FirstMonth>>
    /\ pageError = NoError
    /\ shown = NoShown
    /\ route = "ExpenseTracking"
    /\ writes = 0
    /\ sessionUser = Me
    /\ currentPage = 1
    /\ HooksIdle

\* the view mode, the month or the year is changed: the two effects on
\* [viewMode, selectedMonth, selectedYear] run
ExpenseTrackingChangePeriod(mode, ym) ==
    /\ mode # viewMode \/ ym # selectedMonth
    /\ ExpenseTrackingFetchData(mode, ym)

PagerNext ==
    \/ \E mode \in ViewModes, ym \in TrackedMonths : ExpenseTrackingChangePeriod(mode, ym)
    \/ \E id \in {r.id : r \in expenseTbl} : ExpenseTrackingHandleDelete(id)
    \/ ExpenseTrackingPrevPage
    \/ ExpenseTrackingNextPage

PagerSpec == PagerInit /\ [][PagerNext]_allVars

(***************************************************************************)
(* What a render derives from the page state: totals, balances and series  *)
(***************************************************************************)
\* list.reduce((sum, x) => sum + x.amount, 0)
RECURSIVE SumList(_)
SumList(list) ==
    IF list = <<>> THEN 0 ELSE Head(list).amount + SumList(Tail(list))

\* the reduce of categoryTotals and sourceTotals over <<key, amount>> pairs:
\* add to the entry with the same key, or push a new entry at the end
RECURSIVE GroupTotals(_, _)
GroupTotals(pairs, acc) ==
    IF pairs = <<>> THEN acc
    ELSE LET key == Head(pairs)[1]
             amount == Head(pairs)[2]
             existing == {k \in 1..Len(acc) : acc[k].key = key}
         IN  IF existing # {}
             THEN LET k == CHOOSE i \in existing : \A j \in existing : i <= j
                  IN  GroupTotals(Tail(pairs),
                          [acc EXCEPT ![k].total = acc[k].total + amount])
             ELSE GroupTotals(Tail(pairs), Append(acc, [key |-> key, total |-> amount]))

\* variant: an entry goes before the entries of equal total
InsertBeforeEqual(x, sorted) ==
    LET before == {k \in 1..Len(sorted) : sorted[k].total > x.total}
        n == Cardinality(before)
    IN  SubSeq(sorted, 1, n) \o <<x>> \o SubSeq(sorted, n + 1, Len(sorted))

\* where a stable sort by (a, b) => b.total - a.total puts the next entry:
\* after the entries whose total is not smaller
InsertByTotal(x, sorted) ==
    LET before == {k \in 1..Len(sorted) : sorted[k].total >= x.total}
        n == Cardinality(before)
    IN  SubSeq(sorted, 1, n) \o <<x>> \o SubSeq(sorted, n + 1, Len(sorted))

\* list.sort((a, b) => b.total - a.total): descending, entries of equal total
\* keep their order
RECURSIVE SortByTotalDesc(_)
SortByTotalDesc(list) ==
    IF list = <<>> THEN <<>>
    ELSE InsertByTotal(list[Len(list)], SortByTotalDesc(SubSeq(list, 1, Len(list) - 1)))

\* exp.category_id || 0
CategoryIdOrZero(c) == IF c = Undefined \/ c = 0 THEN 0 ELSE c

\* variant: every record opens an entry of its own
categoryTotalsPerRecord(exps) ==
    SortByTotalDesc([k \in 1..Len(exps) |->
                        [categoryId |-> CategoryIdOrZero(exps[k].category_id),
                         total |-> exps[k].amount,
                         key |-> CategoryIdOrZero(exps[k].category_id)]])

\* ExpenseTracking: categoryTotals
categoryTotals(exps) ==
    LET groups == GroupTotals([k \in 1..Len(exps) |->
                                  <<CategoryIdOrZero(exps[k].category_id), exps[k].amount>>],
                              <<>>)
    IN  SortByTotalDesc([k \in 1..Len(groups) |->
                            [categoryId |-> groups[k].key, total |-> groups[k].total,
                             key |-> groups[k].key]])

\* Yearly: categoryTotals, keyed by exp.category_id as it is
yearlyCategoryTotals(exps) ==
    LET groups == GroupTotals([k \in 1..Len(exps) |->
                                  <<exps[k].category_id, exps[k].amount>>], <<>>)
    IN  SortByTotalDesc([k \in 1..Len(groups) |->
                            [categoryId |-> groups[k].key, total |-> groups[k].total,
                             key |-> groups[k].key]])

\* IncomeTracking: sourceTotals
sourceTotals(recs) ==
    LET groups == GroupTotals([k \in 1..Len(recs) |->
                                  <<recs[k].source_id, recs[k].amount>>], <<>>)
    IN  SortByTotalDesc([k \in 1..Len(groups) |->
                            [sourceId |-> groups[k].key, total |-> groups[k].total,
                             key |-> groups[k].key]])

\* variant: the entries of total zero are kept
accountTotalsUnfiltered(types, exps) ==
    SortByTotalDesc([k \in 1..Len(types) |->
        [accountType |-> types[k],
         total |-> SumList(SelectSeq(exps, LAMBDA e : e.account_type = types[k]))]])

\* ExpenseTracking and Yearly: accountTotals
accountTotals(types, exps) ==
    LET perType == [k \in 1..Len(types) |->
                       [accountType |-> types[k],
                        total |-> SumList(SelectSeq(exps,
                                      LAMBDA e : e.account_type = types[k]))]]
    IN  SortByTotalDesc(SelectSeq(perType, LAMBDA a : a.total > 0))

\* grandTotal
grandTotal(list) == SumList(list)

\* new Date(e.date).getMonth() + 1: the date string is read as midnight UTC and
\* the month is taken in local time; west of Greenwich the first day of a month
\* falls in the month before
LocalMonthOf(date, west) ==
    LET m == (date \div 100) % 100
    IN  IF west /\ date % 100 = 1 THEN (IF m = 1 THEN 12 ELSE m - 1) ELSE m

\* ExpenseTracking and IncomeTracking: periodData
periodData(mode, ym, list, west) ==
    IF mode = "monthly"
    THEN [day \in 1..DaysIn(ym[1], ym[2]) |->
             [period |-> day,
              total |-> SumList(SelectSeq(list,
                            LAMBDA e : e.date = MkDate(ym[1], ym[2], day)))]]
    ELSE [monthNum \in 1..12 |->
             [period |-> monthNum,
              total |-> SumList(SelectSeq(list,
                            LAMBDA e : LocalMonthOf(e.date, west) = monthNum))]]

\* Yearly: monthTotals
monthTotals(exps, west) ==
    SelectSeq([month \in 1..12 |->
                  [month |-> month,
                   total |-> SumList(SelectSeq(exps,
                                 LAMBDA e : LocalMonthOf(e.date, west) = month))]],
              LAMBDA mt : mt.total > 0)

\* variant: the balance is the income alone
accountBalancesIncomeOnly(types, inc, exp) ==
    [k \in 1..Len(types) |->
        LET accIncome == SumAmount({i \in inc : i.account_type = types[k]})
            accExp == SumAmount({e \in exp : e.account_type = types[k]})
        IN  [accountType |-> types[k], income |-> accIncome, expenses |-> accExp,
             balance |-> accIncome]]

\* Dashboard: accountBalances
accountBalances(types, inc, exp) ==
    [k \in 1..Len(types) |->
        LET accIncome == SumAmount({i \in inc : i.account_type = types[k]})
            accExp == SumAmount({e \in exp : e.account_type = types[k]})
        IN  [accountType |-> types[k], income |-> accIncome, expenses |-> accExp,
             balance |-> accIncome - accExp]]

\* Dashboard: accountDistributionData
accountDistributionData(balances) ==
    LET positive == SelectSeq(balances, LAMBDA a : a.balance > 0)
    IN  [k \in 1..Len(positive) |->
            [name |-> positive[k].accountType, value |-> positive[k].balance]]

(***************************************************************************)
(* The renders, over page states drawn from bounded sets                   *)
(***************************************************************************)
\* longest record list drawn
MaxRecords == 3

\* the lists of at most n elements of S
RECURSIVE ListsUpTo(_, _)
ListsUpTo(S, n) ==
    IF n = 0 THEN {<<>>}
    ELSE LET shorter == ListsUpTo(S, n - 1)
         IN  shorter \cup {Append(l, x) : l \in shorter, x \in S}

SampleAmounts == {1, 2, 3}

\* an account type the user had once and has no more
OldAccount == "OLD"

SampleStart == MkDate(StartYear, FirstMonth, 1)
SampleEnd == MkDate(StartYear, FirstMonth, DaysIn(StartYear, FirstMonth))

\* expense records: without category on the first account type, with a category
\* on the second, and on the account type that is gone
SampleExpenses ==
    {[amount |-> a, date |-> SampleStart, category_id |-> Undefined,
      account_type |-> UserAccountTypes[1]] : a \in SampleAmounts}
    \cup {[amount |-> a, date |-> SampleEnd, category_id |-> 7,
           account_type |-> UserAccountTypes[2]] : a \in SampleAmounts}
    \cup {[amount |-> a, date |-> SampleEnd, category_id |-> 8,
           account_type |-> OldAccount] : a \in SampleAmounts}

\* income records of three sources
SampleIncome ==
    {[amount |-> a, date |-> SampleStart, source_id |-> s,
      account_type |-> UserAccountTypes[1]] : a \in SampleAmounts, s \in {SalaryId, 4, 5}}

\* the rows the Dashboard holds: amounts on the user's account types
SampleRows ==
    {[amount |-> a, account_type |-> UserAccountTypes[k]] : a \in {1, 2}, k \in AccountIdx}

\* the rows of a list, each with its own id
RowsOfList(list) ==
    {[id |-> k, user_id |-> Me, amount |-> list[k].amount, date |-> SampleStart,
      account_type |-> list[k].account_type] : k \in 1..Len(list)}

\* what useAccountTypes may have delivered
TypeLists == {<<>>, UserAccountTypes, <<UserAccountTypes[2], UserAccountTypes[1]>>}

AggInit ==
    /\ incomeTbl = {}
    /\ expenseTbl = {}
    /\ sourceTbl = {}
    /\ nextId = 3
    /\ currentYear = StartYear
    /\ currentMonth = FirstMonth
    /\ loading = FALSE
    /\ error = NoError
    /\ started = 0
    /\ insertFailed = {}
    /\ fetch = [f \in Loads |-> IdleFetch]
    /\ HooksIdle
    /\ calls = {}
    /\ allExpenses = {}
    /\ selectedMonth = <<StartYear, FirstMonth>>
    /\ pageError = NoError
    /\ shown = NoShown
    /\ writes = 0
    /\ sessionUser = Me
    /\ currentPage = 1
    /\ accountTypes \in TypeLists
    /\ \/ /\ route = "Dashboard"
          /\ \E inc, exp \in ListsUpTo(SampleRows, MaxRecords - 1) :
                income = RowsOfList(inc) /\ expenses = RowsOfList(exp)
          /\ viewMode = "monthly"
          /\ trackExpenses = <<>> /\ yearlyExpenses = <<>> /\ records = <<>>
       \/ /\ route = "ExpenseTracking"
          /\ trackExpenses \in ListsUpTo(SampleExpenses, MaxRecords)
          /\ viewMode \in ViewModes
          /\ income = {} /\ expenses = {} /\ yearlyExpenses = <<>> /\ records = <<>>
       \/ /\ route = "Yearly"
          /\ yearlyExpenses \in ListsUpTo(SampleExpenses, MaxRecords)
          /\ viewMode = "monthly"
          /\ income = {} /\ expenses = {} /\ trackExpenses = <<>> /\ records = <<>>
       \/ /\ route = "IncomeTracking"
          /\ records \in ListsUpTo(SampleIncome, MaxRecords)
          /\ viewMode \in ViewModes
          /\ income = {} /\ expenses = {} /\ trackExpenses = <<>> /\ yearlyExpenses = <<>>

aggFrame == <<vars, hookVars, calls, yearlyExpenses, allExpenses, trackExpenses, records,
              viewMode, selectedMonth, pageError, route, writes, sessionUser,
              currentPage>>

RenderDashboard ==
    /\ route = "Dashboard"
    /\ shown' = [page |-> "Dashboard",
                 monthlyIncome |-> SumAmount(income),
                 monthlyExpenses |-> SumAmount(expenses),
                 monthlyBalance |-> SumAmount(income) - SumAmount(expenses),
                 accountBalances |-> accountBalances(accountTypes, income, expenses),
                 accountDistributionData |->
                     accountDistributionData(
                         accountBalances(accountTypes, income, expenses))]
    /\ UNCHANGED aggFrame

RenderExpenseTracking ==
    /\ route = "ExpenseTracking"
    /\ \E west \in BOOLEAN :
        shown' = [page |-> "ExpenseTracking",
                  categoryTotals |-> categoryTotals(trackExpenses),
                  accountTotals |-> accountTotals(accountTypes, trackExpenses),
                  grandTotal |-> grandTotal(trackExpenses),
                  periodData |-> periodData(viewMode, selectedMonth, trackExpenses, west)]
    /\ UNCHANGED aggFrame

RenderYearly ==
    /\ route = "Yearly"
    /\ \E west \in BOOLEAN :
        shown' = [page |-> "Yearly",
                  monthTotals |-> monthTotals(yearlyExpenses, west),
                  categoryTotals |-> yearlyCategoryTotals(yearlyExpenses),
                  accountTotals |-> accountTotals(accountTypes, yearlyExpenses),
                  grandTotal |-> grandTotal(yearlyExpenses)]
    /\ UNCHANGED aggFrame

RenderIncomeTracking ==
    /\ route = "IncomeTracking"
    /\ \E west \in BOOLEAN :
        shown' = [page |-> "IncomeTracking",
                  sourceTotals |-> sourceTotals(records),
                  grandTotal |-> grandTotal(records),
                  periodData |-> periodData(viewMode, selectedMonth, records, west)]
    /\ UNCHANGED aggFrame

AggNext ==
    \/ RenderDashboard
    \/ RenderExpenseTracking
    \/ RenderYearly
    \/ RenderIncomeTracking

AggSpec == AggInit /\ [][AggNext]_allVars

(***************************************************************************)
(* The hooks useExpenseCategories, useIncomeSources and useAccountTypes:   *)
(* the add calls.  A name is a sequence of characters.                     *)
(***************************************************************************)
\* add calls in a behaviour
MaxAdds == 2

\* every name of at most this length is an input
MaxNameLen == 2

\* the characters of the names: white space, a lower-case and an upper-case letter
Alphabet == {" ", "a", "A"}

\* variant: the case is kept
toLowerCaseKeepsCase(s) == s

\* String.prototype.toLowerCase
toLowerCase(s) == [i \in 1..Len(s) |-> IF s[i] = "A" THEN "a" ELSE s[i]]

RECURSIVE trimStart(_)
trimStart(s) == IF s # <<>> /\ Head(s) = " " THEN trimStart(Tail(s)) ELSE s

RECURSIVE trimEnd(_)
trimEnd(s) ==
    IF s # <<>> /\ s[Len(s)] = " " THEN trimEnd(SubSeq(s, 1, Len(s) - 1)) ELSE s

\* String.prototype.trim
trim(s) == trimEnd(trimStart(s))

\* the longest name addCategory and addSource accept
NameLimit == 50

Repeat(c, n) == [i \in 1..n |-> c]

\* the names typed: every short name, and names at and beyond the length limit
InputNames ==
    UNION {[1..n -> Alphabet] : n \in 0..MaxNameLen}
        \cup {Repeat("a", NameLimit), Repeat("A", NameLimit), Repeat("a", NameLimit + 1),
              <<" ">> \o Repeat("a", NameLimit) \o <<" ">>}

\* what an add call did: the hook, the name passed, whether an insert was sent
\* to the gateway, and the message of the Error thrown ("null" when none)
Added(hook, name, insert, thrown) ==
    [hook |-> hook, name |-> name, insert |-> insert, thrown |-> thrown]

\* the hooks mounted for a fresh user: every list and table empty
HookInit ==
    /\ incomeTbl = {}
    /\ expenseTbl = {}
    /\ sourceTbl = {}
    /\ nextId = 3
    /\ currentYear = StartYear
    /\ currentMonth = FirstMonth
    /\ accountTypes = <<>>
    /\ income = {}
    /\ expenses = {}
    /\ loading = FALSE
    /\ error = NoError
    /\ started = 0
    /\ insertFailed = {}
    /\ fetch = [f \in Loads |-> IdleFetch]
    /\ PagesIdle
    /\ HooksIdle

hookFrame == <<incomeTbl, expenseTbl, currentYear, currentMonth, income, expenses, loading,
               error, fetch, started, insertFailed, calls, yearlyExpenses, allExpenses,
               trackExpenses, records, viewMode, selectedMonth, pageError, shown, route,
               sessionUser, currentPage, guard, lastEvent, hookFetch, sync>>

\* the effect of each hook: getCurrentUser, for a session that is signed in
getCurrentUser ==
    /\ hookUser = "null"
    /\ hookUser' = Me
    /\ UNCHANGED <<hookFrame, sourceTbl, nextId, accountTypes, writes, categories,
                   incomeSources, categoryTbl, accountTypeTbl, hookError, lastAdd>>

\* useExpenseCategories.addCategory(name)
addCategory(name) ==
    /\ writes < MaxAdds
    /\ writes' = writes + 1
    /\ LET trimmedName == trim(name)
           Rejected(msg) ==
               /\ lastAdd' = Added("useExpenseCategories", name, FALSE, msg)
               /\ UNCHANGED <<categories, categoryTbl, nextId>>
       IN  IF hookUser = "null" THEN Rejected("User not authenticated")
           ELSE IF trimmedName = <<>> THEN Rejected("Category name cannot be empty")
           ELSE IF Len(trimmedName) > NameLimit
           THEN Rejected("Category name must be 50 characters or less")
           ELSE IF \E k \in 1..Len(categories) :
                      toLowerCase(categories[k].name) = toLowerCase(trimmedName)
           THEN Rejected("Category already exists")
           ELSE \E failed \in BOOLEAN :
                IF failed
                THEN /\ lastAdd' = Added("useExpenseCategories", name, TRUE,
                                         "Failed to add category")
                     /\ UNCHANGED <<categories, categoryTbl, nextId>>
                ELSE LET data == [id |-> nextId, name |-> trimmedName, user_id |-> hookUser]
                     IN  /\ categoryTbl' = categoryTbl \cup {data}
                         /\ nextId' = nextId + 1
                         /\ categories' = Append(categories, data)
                         /\ lastAdd' = Added("useExpenseCategories", name, TRUE, NoError)
    /\ UNCHANGED <<hookFrame, sourceTbl, accountTypes, incomeSources, accountTypeTbl,
                   hookUser, hookError>>

\* useIncomeSources.addSource(name)
addSource(name) ==
    /\ writes < MaxAdds
    /\ writes' = writes + 1
    /\ LET trimmedName == trim(name)
           Rejected(msg) ==
               /\ lastAdd' = Added("useIncomeSources", name, FALSE, msg)
               /\ UNCHANGED <<incomeSources, sourceTbl, nextId>>
       IN  IF hookUser = "null" THEN Rejected("User not authenticated")
           ELSE IF trimmedName = <<>> THEN Rejected("Source name cannot be empty")
           ELSE IF Len(trimmedName) > NameLimit
           THEN Rejected("Source name must be 50 characters or less")
           ELSE IF \E k \in 1..Len(incomeSources) :
                      toLowerCase(incomeSources[k].name) = toLowerCase(trimmedName)
           THEN Rejected("Source already exists")
           ELSE \E failed \in BOOLEAN :
                IF failed
                THEN /\ lastAdd' = Added("useIncomeSources", name, TRUE,
                                         "Failed to add income source")
                     /\ UNCHANGED <<incomeSources, sourceTbl, nextId>>
                ELSE LET data == [id |-> nextId, name |-> trimmedName, user_id |-> hookUser]
                     IN  /\ sourceTbl' = sourceTbl \cup {data}
                         /\ nextId' = nextId + 1
                         /\ incomeSources' = Append(incomeSources, data)
                         /\ lastAdd' = Added("useIncomeSources", name, TRUE, NoError)
    /\ UNCHANGED <<hookFrame, accountTypes, categories, categoryTbl, accountTypeTbl,
                   hookUser, hookError>>

\* useAccountTypes.addAccountType(name): it returns null where the other two
\* throw, and reports through setError
addAccountType(name) ==
    /\ writes < MaxAdds
    /\ writes' = writes + 1
    /\ IF hookUser = "null"
       THEN /\ lastAdd' = Added("useAccountTypes", name, FALSE, NoError)
            /\ UNCHANGED <<accountTypes, accountTypeTbl, hookError>>
       ELSE IF trim(name) = <<>>
       THEN /\ hookError' = "Account type name cannot be empty"
            /\ lastAdd' = Added("useAccountTypes", name, FALSE, NoError)
            /\ UNCHANGED <<accountTypes, accountTypeTbl>>
       ELSE IF \E k \in 1..Len(accountTypes) :
                  toLowerCase(accountTypes[k]) = toLowerCase(name)
       THEN /\ hookError' = "Account type already exists"
            /\ lastAdd' = Added("useAccountTypes", name, FALSE, NoError)
            /\ UNCHANGED <<accountTypes, accountTypeTbl>>
       ELSE \E failed \in BOOLEAN :
            /\ lastAdd' = Added("useAccountTypes", name, TRUE, NoError)
            /\ IF failed
               THEN /\ hookError' = "Failed to add account type"
                    /\ UNCHANGED <<accountTypes, accountTypeTbl>>
               ELSE /\ accountTypeTbl' = accountTypeTbl \cup
                            {[name |-> trim(name), user_id |-> hookUser]}
                    /\ accountTypes' = Append(accountTypes, trim(name))
                    /\ hookError' = NoError
    /\ UNCHANGED <<hookFrame, sourceTbl, nextId, categories, incomeSources, categoryTbl,
                   hookUser>>

HookNext ==
    \/ getCurrentUser
    \/ \E name \in InputNames : addCategory(name)
    \/ \E name \in InputNames : addSource(name)
    \/ \E name \in InputNames : addAccountType(name)

HookSpec == HookInit /\ [][HookNext]_allVars

(***************************************************************************)
(* ProtectedRoute: the initial check, the auth-state listener, the render. *)
(* React renders after the state updates, as a step of its own; a render   *)
(* of <Navigate to="/login" replace /> leaves the guarded routes, which    *)
(* unmounts the component and ends its subscription.                       *)
(***************************************************************************)
\* times the guarded routes are entered in a behaviour
MaxMounts == 2

\* auth-state events delivered to one mounted guard
MaxEvents == 3

\* the user of a getUser result or of an event's session
AuthUsers == {"null", Me}

\* useState(true), useState(false); checkAuth() called, nothing rendered yet
GuardMounted(n) ==
    [mounted |-> TRUE, loading |-> TRUE, authenticated |-> FALSE, check |-> "pending",
     view |-> "none", mounts |-> n, events |-> 0]

GuardInit ==
    /\ incomeTbl = {}
    /\ expenseTbl = {}
    /\ sourceTbl = {}
    /\ nextId = 3
    /\ currentYear = StartYear
    /\ currentMonth = FirstMonth
    /\ accountTypes = <<>>
    /\ income = {}
    /\ expenses = {}
    /\ loading = FALSE
    /\ error = NoError
    /\ started = 0
    /\ insertFailed = {}
    /\ fetch = [f \in Loads |-> IdleFetch]
    /\ PagesIdle
    /\ categories = <<>>
    /\ incomeSources = <<>>
    /\ categoryTbl = {}
    /\ accountTypeTbl = {}
    /\ hookUser = "null"
    /\ hookError = NoError
    /\ lastAdd = NoAdd
    /\ guard = GuardMounted(1)
    /\ lastEvent = "none"
    /\ hookFetch = NoFetch
    /\ sync = NoSync

guardFrame == <<vars, pageVars, categories, incomeSources, categoryTbl, accountTypeTbl,
                hookUser, hookError, lastAdd, hookFetch, sync>>

\* checkAuth: the awaited getUser() returns; the setters of an unmounted
\* component change nothing
checkAuthReturns(user) ==
    /\ guard.check = "pending"
    /\ guard' = IF guard.mounted
                THEN [guard EXCEPT !.authenticated = (user # "null"),
                                   !.loading = FALSE,
                                   !.check = "done"]
                ELSE [guard EXCEPT !.check = "done"]
    /\ UNCHANGED <<guardFrame, lastEvent>>

\* the callback given to onAuthStateChange, called with an event's session
onAuthStateChange(user) ==
    /\ guard.mounted
    /\ guard.events < MaxEvents
    /\ guard' = [guard EXCEPT !.authenticated = (user # "null"),
                              !.loading = FALSE,
                              !.events = @ + 1]
    /\ lastEvent' = user
    /\ UNCHANGED guardFrame

\* what the component returns for its state
ViewOf(g) ==
    IF g.loading THEN "loading"
    ELSE IF ~g.authenticated THEN "redirect"
    ELSE "children"

\* a render of the mounted component whose output changes
GuardRender ==
    /\ guard.mounted
    /\ guard.view # ViewOf(guard)
    /\ guard' = [guard EXCEPT !.view = ViewOf(guard),
                              !.mounted = (ViewOf(guard) # "redirect")]
    /\ UNCHANGED <<guardFrame, lastEvent>>

\* a guarded route is entered again after the redirect to /login
GuardMount ==
    /\ ~guard.mounted
    /\ guard.check = "done"
    /\ guard.mounts < MaxMounts
    /\ guard' = GuardMounted(guard.mounts + 1)
    /\ lastEvent' = "none"
    /\ UNCHANGED guardFrame

GuardNext ==
    \/ \E user \in AuthUsers : checkAuthReturns(user)
    \/ \E user \in AuthUsers : onAuthStateChange(user)
    \/ GuardRender
    \/ GuardMount

GuardSpec == GuardInit /\ [][GuardNext]_allVars

(***************************************************************************)
(* The fetch of useAccountTypes, useExpenseCategories and useIncomeSources *)
(* with its re-poll, the effect that starts it, and the auth listener.     *)
(* One hook is mounted; an invocation chain is a first call of the fetch   *)
(* function and the calls its timers make.                                 *)
(***************************************************************************)
\* fetches the effect starts in a behaviour
MaxFetches == 1

Hooks == {"useAccountTypes", "useExpenseCategories", "useIncomeSources"}

\* the rows the sign-up trigger creates for a user
DefaultRow(hook, u) ==
    IF hook = "useAccountTypes" THEN [name |-> <<"A">>, user_id |-> u]
    ELSE [id |-> 1, name |-> <<"a">>, user_id |-> u]

TableOf(hook) ==
    CASE hook = "useAccountTypes" -> accountTypeTbl
      [] hook = "useExpenseCategories" -> categoryTbl
      [] hook = "useIncomeSources" -> sourceTbl

ListOf(hook) ==
    CASE hook = "useAccountTypes" -> accountTypes
      [] hook = "useExpenseCategories" -> categories
      [] hook = "useIncomeSources" -> incomeSources

\* select(...).eq("user_id", user.id).order(...) on a table of at most one row
\* per user; useAccountTypes maps the rows to their names
QueryResult(hook, u) ==
    LET rows == {r \in TableOf(hook) : r.user_id = u}
    IN  IF rows = {} THEN <<>>
        ELSE LET r == CHOOSE x \in rows : TRUE
             IN  IF hook = "useAccountTypes" THEN <<r.name>> ELSE <<r>>

\* err.message || "Failed to fetch ..."
FetchErrorOf(hook) ==
    CASE hook = "useAccountTypes" -> "Failed to fetch account types"
      [] hook = "useExpenseCategories" -> "Failed to fetch categories"
      [] hook = "useIncomeSources" -> "Failed to fetch income sources"

\* variant: an empty answer is polled again whatever retryCount is
repollsAlways(types, retryCount) == Len(types) = 0

\* types.length === 0 && retryCount < 6
repolls(types, retryCount) == Len(types) = 0 /\ retryCount < 6

\* setAccountTypes / setCategories / setSources
SetList(hook, list) ==
    /\ accountTypes' = IF hook = "useAccountTypes" THEN list ELSE accountTypes
    /\ categories' = IF hook = "useExpenseCategories" THEN list ELSE categories
    /\ incomeSources' = IF hook = "useIncomeSources" THEN list ELSE incomeSources

\* a call of the fetch function by the effect, for the user of its closure:
\* `if (!user) return` passes and the query is sent; queries counts the queries
\* of the invocation chain and last is the kind of its last answer
NewChain(u) ==
    [user |-> u, retryCount |-> 0, pc |-> "query", queries |-> 1, last |-> "none"]

\* the invocation chains a behaviour can hold: one of the mount effect and
\* those of the SIGNED_IN events
ChainSlots == 1..(MaxFetches + 1)

FetchInit ==
    /\ incomeTbl = {}
    /\ expenseTbl = {}
    /\ sourceTbl = {}
    /\ nextId = 3
    /\ currentYear = StartYear
    /\ currentMonth = FirstMonth
    /\ accountTypes = <<>>
    /\ income = {}
    /\ expenses = {}
    /\ loading = FALSE
    /\ error = NoError
    /\ started = 0
    /\ insertFailed = {}
    /\ fetch = [f \in Loads |-> IdleFetch]
    /\ PagesIdle
    /\ categories = <<>>
    /\ incomeSources = <<>>
    /\ categoryTbl = {}
    /\ accountTypeTbl = {}
    /\ hookUser = "null"
    /\ hookError = NoError
    /\ lastAdd = NoAdd
    /\ guard = GuardPassed
    /\ lastEvent = "none"
    /\ \E hook \in Hooks : hookFetch = [hook |-> hook, asked |-> FALSE, chains |-> <<>>]
    /\ sync = NoSync

fetchFrame == <<incomeTbl, expenseTbl, nextId, currentYear, currentMonth, income, expenses,
                loading, error, fetch, started, insertFailed, pageVars, lastAdd, guard,
                sync>>

\* the sign-up trigger has run: the user's default row is in the table
DefaultsCreated ==
    /\ TableOf(hookFetch.hook) = {}
    /\ accountTypeTbl' = IF hookFetch.hook = "useAccountTypes"
                         THEN {DefaultRow(hookFetch.hook, Me)} ELSE accountTypeTbl
    /\ categoryTbl' = IF hookFetch.hook = "useExpenseCategories"
                      THEN {DefaultRow(hookFetch.hook, Me)} ELSE categoryTbl
    /\ sourceTbl' = IF hookFetch.hook = "useIncomeSources"
                    THEN {DefaultRow(hookFetch.hook, Me)} ELSE sourceTbl
    /\ UNCHANGED <<fetchFrame, accountTypes, categories, incomeSources, hookUser, hookError,
                   lastEvent, hookFetch>>

\* getCurrentUser of the mount effect returns: setUser(user), and the effect
\* on [user] calls the fetch when the user is set
getCurrentUserReturns(user) ==
    /\ ~hookFetch.asked
    /\ hookUser' = user
    /\ hookFetch' = [hookFetch EXCEPT
                        !.asked = TRUE,
                        !.chains = IF user # "null" THEN Append(@, NewChain(user)) ELSE @]
    /\ hookError' = IF user # "null" THEN NoError ELSE hookError
    /\ UNCHANGED <<fetchFrame, sourceTbl, accountTypeTbl, categoryTbl, accountTypes,
                   categories, incomeSources, lastEvent>>

\* the auth listener on SIGNED_IN with a session user: setUser(session.user),
\* and the effect on [user] calls the fetch
onSignedIn ==
    /\ Len(hookFetch.chains) < MaxFetches
    /\ hookUser' = Me
    /\ lastEvent' = Me
    /\ hookFetch' = [hookFetch EXCEPT !.chains = Append(@, NewChain(Me))]
    /\ hookError' = NoError
    /\ UNCHANGED <<fetchFrame, sourceTbl, accountTypeTbl, categoryTbl, accountTypes,
                   categories, incomeSources>>

\* the auth listener on SIGNED_OUT: resetToDefaults()
resetToDefaults ==
    /\ lastEvent # "null"
    /\ SetList(hookFetch.hook, <<>>)
    /\ hookError' = NoError
    /\ hookUser' = "null"
    /\ lastEvent' = "null"
    /\ UNCHANGED <<fetchFrame, sourceTbl, accountTypeTbl, categoryTbl, hookFetch>>

\* the awaited query of invocation i answers: an error, or the rows of the
\* closure's user
FetchReturns(i) ==
    /\ i \in 1..Len(hookFetch.chains)
    /\ hookFetch.chains[i].pc = "query"
    /\ \E failed \in BOOLEAN :
        LET c == hookFetch.chains[i]
            types == QueryResult(hookFetch.hook, c.user)
        IN  IF failed
            THEN /\ hookError' = FetchErrorOf(hookFetch.hook)
                 /\ hookFetch' = [hookFetch EXCEPT !.chains[i].pc = "done",
                                                   !.chains[i].last = "error"]
                 /\ UNCHANGED <<accountTypes, categories, incomeSources>>
            ELSE IF repolls(types, c.retryCount)
            THEN /\ hookFetch' = [hookFetch EXCEPT !.chains[i].pc = "timer",
                                                   !.chains[i].last = "empty"]
                 /\ UNCHANGED <<accountTypes, categories, incomeSources, hookError>>
            ELSE /\ SetList(hookFetch.hook, types)
                 /\ hookFetch' = [hookFetch EXCEPT
                                     !.chains[i].pc = "done",
                                     !.chains[i].last =
                                         IF types = <<>> THEN "empty" ELSE "rows"]
                 /\ UNCHANGED hookError
    /\ UNCHANGED <<fetchFrame, sourceTbl, accountTypeTbl, categoryTbl, hookUser, lastEvent>>

\* the 500 ms timer of invocation i fires: the fetch function of the same
\* closure is called with retryCount + 1, clears the error and sends its query
RepollTimerFires(i) ==
    /\ i \in 1..Len(hookFetch.chains)
    /\ hookFetch.chains[i].pc = "timer"
    /\ hookFetch' = [hookFetch EXCEPT !.chains[i].pc = "query",
                                      !.chains[i].retryCount = @ + 1,
                                      !.chains[i].queries = @ + 1]
    /\ hookError' = NoError
    /\ UNCHANGED <<fetchFrame, sourceTbl, accountTypeTbl, categoryTbl, accountTypes,
                   categories, incomeSources, hookUser, lastEvent>>

FetchNext ==
    \/ DefaultsCreated
    \/ \E user \in AuthUsers : getCurrentUserReturns(user)
    \/ onSignedIn
    \/ resetToDefaults
    \/ \E i \in ChainSlots : FetchReturns(i)
    \/ \E i \in ChainSlots : RepollTimerFires(i)

FetchSpec == FetchInit /\ [][FetchNext]_allVars

\* every query is answered and every timer fires
FairFetchSpec ==
    /\ FetchSpec
    /\ \A i \in ChainSlots :
          WF_allVars(FetchReturns(i)) /\ WF_allVars(RepollTimerFires(i))

(***************************************************************************)
(* Vocabulary of the properties                                            *)
(***************************************************************************)
AccountNames == {UserAccountTypes[a] : a \in AccountIdx}

PeriodOfDate(d) == PeriodIdx(d \div 10000, (d \div 100) % 100)
DayOfDate(d) == d % 100

\* ids of the signed-in user's sources named "Balance Carryover"
MyCarryoverSourceIds ==
    {s.id : s \in {x \in sourceTbl : x.user_id = Me /\ x.name = CarryoverName}}

\* the signed-in user's carryover rows of period p in a table
CarryoverRows(tbl, p) ==
    {r \in tbl : r.user_id = Me /\ r.source_id \in MyCarryoverSourceIds
                 /\ PeriodOfDate(r.date) = p}

\* the signed-in user's rows of period p in a table
RowsOfPeriod(tbl, p) == {r \in tbl : r.user_id = Me /\ PeriodOfDate(r.date) = p}

RowsOfAccount(rows, a) == {r \in rows : r.account_type = a}

FetchPeriod(f) == PeriodIdx(fetch[f].year, fetch[f].month)

\* balance of account a in period p as the store holds it
StoredBalance(p, a) ==
    SumAmount(RowsOfAccount(RowsOfPeriod(incomeTbl, p), a))
        - SumAmount(RowsOfAccount(RowsOfPeriod(expenseTbl, p), a))

SeqToSet(q) == {q[k] : k \in 1..Len(q)}

\* the account types of invocation f with a positive balance in the preceding month
OwedAccounts(f) ==
    {a \in SeqToSet(fetch[f].accts) : StoredBalance(FetchPeriod(f) - 1, a) > 0}

C2_Step(f) ==
    LET p == FetchPeriod(f)
        new == incomeTbl' \ incomeTbl
    IN  /\ \* the month is evaluated when it holds no carryover row
           (fetch[f].pc = "expenses" /\ fetch'[f].pc = "done" /\ error' = NoError)
               => (CarryoverRows(incomeTbl, p) # {} \/ fetch[f].sources = {})
        /\ \* the insert is issued exactly when some account type is owed
           fetch[f].pc = "prevExp"
               => (fetch'[f].pc = "insert" <=> OwedAccounts(f) # {})
        /\ \* what a successful insert adds
           (fetch[f].pc = "insert" /\ fetch'[f].pc = "refetch")
               => /\ \A r \in new : r.account_type \in OwedAccounts(f)
                  /\ \A a \in OwedAccounts(f) :
                        /\ Cardinality(RowsOfAccount(new, a)) = 1
                        /\ \A r \in RowsOfAccount(new, a) :
                              /\ r.amount = StoredBalance(p - 1, a)
                              /\ r.date = MkDate(fetch[f].year, fetch[f].month, 1)
                              /\ r.source_id \in MyCarryoverSourceIds
                              /\ r.user_id = Me
                              /\ r.id \notin {x.id : x \in incomeTbl}

C3_NoDuplicateCarryover ==
    \A p \in Window : \A a \in AccountNames :
        Cardinality(RowsOfAccount(CarryoverRows(incomeTbl, p), a)) <= 1

(***************************************************************************)
(* C4: once every invocation of fetchData has returned, and none of them   *)
(* left an error, the displayed income and expense rows are rows of the    *)
(* selected month.                                                         *)
(***************************************************************************)
C4_DisplayedIsSelected ==
    (Quiet /\ error = NoError)
        => \A r \in income \cup expenses :
              PeriodOfDate(r.date) = PeriodIdx(currentYear, currentMonth)

(***************************************************************************)
(* C5: the carryover step synthesizes no row for an account type whose     *)
(* balance of the preceding month is zero or negative; every carryover row *)
(* has a positive amount, and the step creates no expense row.             *)
(***************************************************************************)
CarryAccounts(f) == {fetch[f].carries[k].account_type : k \in 1..Len(fetch[f].carries)}

OwnBalance(p, a) ==
    SumAmount({i \in incomeTbl :
                  i.user_id = Me /\ PeriodOfDate(i.date) = p /\ i.account_type = a})
        - SumAmount({e \in expenseTbl :
                        e.user_id = Me /\ PeriodOfDate(e.date) = p /\ e.account_type = a})

C7_Step(f) ==
    LET p == FetchPeriod(f)
    IN  /\ (fetch[f].pc = "prevInc" /\ fetch'[f].pc = "prevExp")
               => fetch'[f].prevInc = RowsOfPeriod(incomeTbl, p - 1)
        /\ (fetch[f].pc = "prevExp" /\ fetch'[f].pc = "insert")
               => /\ fetch'[f].prevExp = RowsOfPeriod(expenseTbl, p - 1)
                  /\ \A k \in 1..Len(fetch'[f].carries) :
                        fetch'[f].carries[k].amount
                            = OwnBalance(p - 1, fetch'[f].carries[k].account_type)
        /\ (fetch[f].pc = "insert" /\ fetch'[f].pc = "refetch")
               => /\ p = PeriodIdx(currentYear, currentMonth)
                  /\ \A r \in incomeTbl' \ incomeTbl :
                        PeriodOfDate(r.date) = p /\ DayOfDate(r.date) = 1

C7_NoCarryFromEmptyMonth ==
    \A q \in Window :
        RowsOfPeriod(incomeTbl, q - 1) = {} => CarryoverRows(incomeTbl, q) = {}

CreateFailed(f) == fetch[f].pc \in {"income", "expenses"} /\ fetch[f].sources = {}

\* invocation f returns in this step
Returns(f) == fetch[f].pc # "done" /\ fetch'[f].pc = "done"

C8_Degraded(f) ==
    /\ loading' = FALSE
    /\ income' = RowsOfPeriod(incomeTbl', FetchPeriod(f))
    /\ expenses' = RowsOfPeriod(expenseTbl', FetchPeriod(f))
    /\ CarryoverRows(incomeTbl', FetchPeriod(f)) = {}

C8_Step(f) ==
    /\ \* the creation fails: no error, the invocation goes on
       (fetch[f].pc = "create" /\ fetch'[f].sources = {})
           => /\ fetch'[f].pc = "income"
              /\ error' = NoError
              /\ UNCHANGED <<incomeTbl, sourceTbl, income, expenses>>
    /\ \* ... and returns without a query error
       (CreateFailed(f) /\ Returns(f) /\ error' = NoError) => C8_Degraded(f)
    /\ \* the batch insert fails
       (fetch[f].pc = "insert" /\ Returns(f))
           => /\ error' = NoError
              /\ incomeTbl' = incomeTbl
              /\ C8_Degraded(f)

C9_Step(f) ==
    LET p == FetchPeriod(f)
    IN  /\ (fetch[f].pc = "insert" /\ Returns(f))
               => /\ incomeTbl' = incomeTbl
                  /\ CarryoverRows(incomeTbl', p) = {}
                  /\ started' = started
                  /\ \A g \in Loads : fetch'[g].pc # "insert"
        /\ (fetch[f].pc = "insert" /\ fetch'[f].pc = "refetch")
               => /\ CarryoverRows(incomeTbl, p) = {}
                  /\ {r.account_type : r \in CarryoverRows(incomeTbl', p)} = OwedAccounts(f)
                  /\ Cardinality(CarryoverRows(incomeTbl', p)) = Cardinality(OwedAccounts(f))
                  /\ \A q \in Window \ {p} :
                        CarryoverRows(incomeTbl', q) = CarryoverRows(incomeTbl, q)

C10_Inv ==
    \A f \in Loads :
        /\ fetch[f].pc \in {"prevInc", "prevExp", "insert", "refetch"}
              => /\ fetch[f].sources # {}
                 /\ fetch[f].sources \subseteq sourceTbl
                 /\ SourceIdOf(fetch[f].sources) \in MyCarryoverSourceIds
        /\ fetch[f].pc = "insert"
              => /\ Len(fetch[f].carries) > 0
                 /\ \A k \in 1..Len(fetch[f].carries) :
                       fetch[f].carries[k].source_id = SourceIdOf(fetch[f].sources)

C10_Step(f) ==
    /\ \* the source is looked up, and created, before the month is queried
       sourceTbl' # sourceTbl => \E g \in Loads : fetch[g].pc = "create"
    /\ \* one call sends the whole batch, and the invocation does not insert again
       (fetch[f].pc = "insert" /\ fetch'[f].pc # "insert")
           => /\ fetch'[f].pc \in {"refetch", "done"}
              /\ incomeTbl' \ incomeTbl # {}
                    => Cardinality(incomeTbl' \ incomeTbl) = Len(fetch[f].carries)
    /\ fetch[f].pc \in {"refetch", "done"} => fetch'[f].pc \in {"refetch", "done"}

C10_SourceBeforeInsert ==
    [][/\ \A f \in Loads : C10_Step(f)
       /\ incomeTbl' # incomeTbl
             => \E f \in Loads : fetch[f].pc = "insert" /\ fetch'[f].pc = "refetch"
       /\ C10_Inv']_vars

\* a batch of two rows is about to be sent; the last id the store handed out is the source's
C10_BatchReady ==
    \E f \in Loads :
        /\ fetch[f].pc = "insert"
        /\ Len(fetch[f].carries) = 2
        /\ SourceIdOf(fetch[f].sources) = nextId - 1
        /\ fetch[f].sources \subseteq sourceTbl

(***************************************************************************)
(* C11: a successful batch insert is followed by the second income query   *)
(* of the month, and when the invocation returns the displayed income list *)
(* holds every row the first query returned and every inserted row, so the *)
(* monthly income is the first query's sum plus the inserted amounts.      *)
(***************************************************************************)
C11_Step(f) ==
    LET p == FetchPeriod(f)
    IN  /\ (fetch[f].pc = "insert" /\ incomeTbl' # incomeTbl)
               => fetch'[f].pc = "refetch"
        /\ (fetch[f].pc = "refetch" /\ Returns(f))
               => /\ CarryoverRows(incomeTbl, p) # {}
                  /\ CarryoverRows(incomeTbl, p) \subseteq income'
                  /\ fetch[f].incomeData \subseteq income'
                  /\ SumAmount(income') = SumAmount(fetch[f].incomeData)
                                              + SumAmount(CarryoverRows(incomeTbl, p))

C11_RefreshAfterInsert == [][\A f \in Loads : C11_Step(f)]_vars

(***************************************************************************)
(* C12: every call a page issues to the gateway names the signed-in user   *)
(* (an equality filter on user_id, or the user_id field of the row sent),  *)
(* and the lists the Yearly and Expenses pages sum over hold rows of the   *)
(* signed-in user only.                                                    *)
(***************************************************************************)
C12_UserScoped ==
    /\ \A c \in calls : c.byUser
    /\ \A r \in SeqToSet(yearlyExpenses) \cup allExpenses : r.user_id = Me

(***************************************************************************)
(* C13: the Dashboard's accountBalances has one entry per element of       *)
(* accountTypes, in that order, with income = the sum of the income rows   *)
(* tagged with it, expenses = the sum of the expense rows tagged with it   *)
(* and balance = income - expenses; an account type without rows has an    *)
(* entry of three zeros; accountDistributionData holds exactly the entries *)
(* whose balance is positive, as name and value, in the same order.        *)
(***************************************************************************)
C13_AccountBalances ==
    shown.page = "Dashboard"
        => LET b == shown.accountBalances
               d == shown.accountDistributionData
               positive == {k \in 1..Len(b) : b[k].balance > 0}
           IN  /\ Len(b) = Len(accountTypes)
               /\ \A k \in 1..Len(b) :
                     /\ b[k].accountType = accountTypes[k]
                     /\ b[k].income = SumAmount(RowsOfAccount(income, accountTypes[k]))
                     /\ b[k].expenses = SumAmount(RowsOfAccount(expenses, accountTypes[k]))
                     /\ b[k].balance = b[k].income - b[k].expenses
                     /\ (RowsOfAccount(income \cup expenses, accountTypes[k]) = {})
                           => (b[k].income = 0 /\ b[k].expenses = 0 /\ b[k].balance = 0)
               /\ Len(d) = Cardinality(positive)
               /\ SeqToSet(d) = {[name |-> b[k].accountType, value |-> b[k].balance] :
                                    k \in positive}
               /\ \A i, j \in 1..Len(d) :
                     i < j => \E k, l \in positive :
                                 /\ k < l
                                 /\ d[i].name = b[k].accountType
                                 /\ d[j].name = b[l].accountType

\* an account type with income 3 and expenses 2 shows balance 1 and is the only
\* one charted; the other account type, without rows, shows three zeros
C13_SurplusAndUnusedAccount ==
    /\ shown.page = "Dashboard"
    /\ Len(shown.accountBalances) = 2
    /\ \E k, j \in 1..2 :
          /\ shown.accountBalances[k].income = 3
          /\ shown.accountBalances[k].expenses = 2
          /\ shown.accountBalances[k].balance = 1
          /\ RowsOfAccount(income \cup expenses, accountTypes[j]) = {}
          /\ shown.accountBalances[j] =
                [accountType |-> accountTypes[j], income |-> 0, expenses |-> 0,
                 balance |-> 0]
          /\ shown.accountDistributionData =
                <<[name |-> accountTypes[k], value |-> 1]>>

(***************************************************************************)
(* C14: for every expense list of the ExpenseTracking page, the totals of  *)
(* categoryTotals add up to grandTotal, which is the sum of the amounts;   *)
(* every record is counted in exactly one entry, the entry of its          *)
(* category_id (records without category share the entry 0), whose total   *)
(* is the sum of its records; no two entries have the same categoryId; for *)
(* the empty list categoryTotals is empty and grandTotal is 0.             *)
(***************************************************************************)
RECURSIVE SumTotals(_)
SumTotals(entries) ==
    IF entries = <<>> THEN 0 ELSE Head(entries).total + SumTotals(Tail(entries))

\* sum of the amounts of the records of a list at the positions in ks
RECURSIVE AmountAt(_, _)
AmountAt(list, ks) ==
    IF ks = {} THEN 0
    ELSE LET k == CHOOSE x \in ks : TRUE
         IN  list[k].amount + AmountAt(list, ks \ {k})

C15_AccountTotalsConserve ==
    (shown.page \in {"ExpenseTracking", "Yearly"} /\ accountTypes # <<>>)
        => SumTotals(shown.accountTotals) = shown.grandTotal

(***************************************************************************)
(* C16: categoryTotals, accountTotals and sourceTotals come out by         *)
(* descending total, and entries of equal total in the order in which      *)
(* their category, account type or source first occurs in the record list. *)
(***************************************************************************)
\* the first position of a list whose record satisfies Has
FirstSeen(list, Has(_)) ==
    CHOOSE k \in 1..Len(list) :
        Has(list[k]) /\ \A j \in 1..Len(list) : Has(list[j]) => k <= j

\* entries by descending total, ties by ascending seen(entry)
OrderedBy(entries, seen(_)) ==
    \A i, j \in 1..Len(entries) :
        i < j => \/ entries[i].total > entries[j].total
                 \/ /\ entries[i].total = entries[j].total
                    /\ seen(entries[i]) < seen(entries[j])

C16_CategoriesOrdered ==
    shown.page = "ExpenseTracking"
        => OrderedBy(shown.categoryTotals,
               LAMBDA e : FirstSeen(trackExpenses,
                              LAMBDA r : e.categoryId =
                                  (IF r.category_id = Undefined THEN 0 ELSE r.category_id)))

C16_SourcesOrdered ==
    shown.page = "IncomeTracking"
        => OrderedBy(shown.sourceTotals,
               LAMBDA e : FirstSeen(records, LAMBDA r : e.sourceId = r.source_id))

C16_AccountsOrdered ==
    shown.page = "ExpenseTracking"
        => OrderedBy(shown.accountTotals,
               LAMBDA e : FirstSeen(trackExpenses, LAMBDA r : e.accountType = r.account_type))

C16_OutputOrdering ==
    C16_CategoriesOrdered /\ C16_SourcesOrdered /\ C16_AccountsOrdered

(***************************************************************************)
(* C17: an account-type summary has no entry of total zero, and a bucket   *)
(* series keeps its zero buckets: the series by day has one entry per day  *)
(* of the selected month and a series by month has twelve entries,         *)
(* whatever the records are.                                               *)
(***************************************************************************)
C17_NoZeroAccountEntry ==
    shown.page \in {"ExpenseTracking", "Yearly"}
        => \A i \in 1..Len(shown.accountTotals) : shown.accountTotals[i].total # 0

C17_PeriodSeriesComplete ==
    shown.page \in {"ExpenseTracking", "IncomeTracking"}
        => /\ Len(shown.periodData) =
                  (IF viewMode = "monthly"
                   THEN DaysIn(selectedMonth[1], selectedMonth[2])
                   ELSE 12)
           /\ \A i \in 1..Len(shown.periodData) : shown.periodData[i].period = i

C17_MonthTotalsComplete ==
    shown.page = "Yearly"
        => /\ Len(shown.monthTotals) = 12
           /\ \A i \in 1..Len(shown.monthTotals) : shown.monthTotals[i].month = i

C17_ZeroTotalGroups ==
    C17_NoZeroAccountEntry /\ C17_PeriodSeriesComplete /\ C17_MonthTotalsComplete

(***************************************************************************)
(* C18: no form or edit handler sends an insert or an update of an         *)
(* expense or income record whose amount is zero or negative.              *)
(***************************************************************************)
C18_EditsPositive ==
    \A c \in calls :
        (c.op = "update" /\ c.page \in {"ExpenseTracking", "IncomeTracking"})
            => c.amount > 0

C18_PositiveAmounts ==
    \A c \in calls : c.op \in {"insert", "update"} => c.amount > 0

(***************************************************************************)
(* C19: addCategory and addSource called with a name that, trimmed, equals *)
(* a name of the hook's list ignoring case, or is empty, or is longer than *)
(* 50 characters, throw an Error, send no insert and leave the list and    *)
(* the table as they were.                                                 *)
(***************************************************************************)
EqualIgnoringCase(a, b) ==
    /\ Len(a) = Len(b)
    /\ \A i \in 1..Len(a) : a[i] = b[i] \/ {a[i], b[i]} = {"a", "A"}

\* the name, trimmed, is one the hook must refuse given the names it holds
Refused(name, held) ==
    \/ trim(name) = <<>>
    \/ Len(trim(name)) > 50
    \/ \E h \in held : EqualIgnoringCase(h, trim(name))

NamesOf(list) == {list[k].name : k \in 1..Len(list)}

C19_Step ==
    writes' = writes + 1 =>
        /\ (lastAdd'.hook = "useExpenseCategories" /\ Refused(lastAdd'.name, NamesOf(categories)))
               => /\ ~lastAdd'.insert
                  /\ lastAdd'.thrown # NoError
                  /\ UNCHANGED <<categories, categoryTbl>>
        /\ (lastAdd'.hook = "useIncomeSources" /\ Refused(lastAdd'.name, NamesOf(incomeSources)))
               => /\ ~lastAdd'.insert
                  /\ lastAdd'.thrown # NoError
                  /\ UNCHANGED <<incomeSources, sourceTbl>>

C20_RejectedSendsNothing ==
    (lastAdd.hook = "useAccountTypes"
        /\ hookError \in {"Account type name cannot be empty", "Account type already exists"})
        => ~lastAdd.insert

C20_NoTwoEqual ==
    \A i, j \in 1..Len(accountTypes) :
        i # j => ~EqualIgnoringCase(accountTypes[i], accountTypes[j])

C20_AccountTypesUnique == C20_NoTwoEqual /\ C20_RejectedSendsNothing

(***************************************************************************)
(* C21: a handler that runs while no user is signed in issues no query or  *)
(* mutation on expenses or income, and the tracking pages then show        *)
(* 'User not authenticated' as their error.                                *)
(***************************************************************************)
ValidationMessages ==
    {"Please provide a valid item name and amount.",
     "Please select a source and provide a valid amount."}

C21_TrackingPagesRefuse ==
    (sessionUser = "null" /\ route \in {"ExpenseTracking", "IncomeTracking"})
        => /\ calls = {}
           /\ pageError \in {"User not authenticated"} \cup ValidationMessages

C21_NoCallWithoutUser ==
    sessionUser = "null" => \A c \in calls : c.table \notin {"expenses", "income"}

C21_NotAuthenticated == C21_TrackingPagesRefuse /\ C21_NoCallWithoutUser

(***************************************************************************)
(* C22: ProtectedRoute renders its children only when loading is false and *)
(* authenticated is true; while the initial check is pending it renders    *)
(* neither the children nor the redirect; and a render that follows a      *)
(* SIGNED_OUT event, with no later event carrying a user, is the redirect. *)
(***************************************************************************)
Rendered == guard'.view # guard.view

C22_ChildrenOnlyWhenAuthenticated ==
    [][(Rendered /\ guard'.view = "children")
           => (~guard.loading /\ guard.authenticated)]_allVars

C22_NothingWhilePending ==
    (guard.mounted /\ guard.check = "pending") => guard.view \in {"none", "loading"}

C22_Step ==
    /\ (Rendered /\ guard'.view = "children") => (~guard.loading /\ guard.authenticated)
    /\ (Rendered /\ guard.mounted /\ guard.check = "pending")
           => guard'.view \in {"none", "loading"}
    /\ (Rendered /\ lastEvent = "null") => guard'.view = "redirect"

C22_RouteGuard == [][C22_Step]_allVars

\* the render after a SIGNED_OUT event is the redirect
C22_RedirectAfterSignOut == [][(Rendered /\ lastEvent = "null") => guard'.view = "redirect"]_allVars

(***************************************************************************)
(* C23: a fetch of a hook sends at most 7 queries, a re-poll is scheduled  *)
(* only after an answer without rows and at most 6 times, an answer with   *)
(* rows or an error ends the fetch, the seventh empty answer sets the list *)
(* to empty, and every fetch comes to an end.                              *)
(***************************************************************************)
ChainIds == 1..Len(hookFetch.chains)

C23_QueriesBounded == \A i \in ChainIds : hookFetch.chains[i].queries <= 7

C23_Step ==
    \A i \in ChainIds :
        LET c == hookFetch.chains[i]
            d == hookFetch'.chains[i]
            answer == QueryResult(hookFetch.hook, c.user)
        IN  /\ (c.pc = "query" /\ d.pc = "timer")
                   => (d.last = "empty" /\ answer = <<>> /\ c.queries <= 6)
            /\ (c.pc = "query" /\ d.pc # "query" /\ d.last \in {"rows", "error"})
                   => d.pc = "done"
            /\ (c.pc = "query" /\ d.pc = "done" /\ d.last # "error")
                   => ListOf(hookFetch.hook)' = answer
            /\ (c.pc = "query" /\ d.pc # "query" /\ c.queries = 7) => d.pc = "done"
            /\ (c.pc = "timer" /\ d.pc = "query") => d.queries = c.queries + 1

AllFetchesEnded == \A i \in ChainIds : hookFetch.chains[i].pc = "done"

C23_BoundedRepoll ==
    /\ []C23_QueriesBounded
    /\ [][C23_Step]_allVars
    /\ <>[]AllFetchesEnded

\* a fetch gave up after its seventh empty answer
C23_GaveUp ==
    \E i \in ChainIds :
        /\ hookFetch.chains[i].queries = 7
        /\ hookFetch.chains[i].pc = "done"
        /\ hookFetch.chains[i].last = "empty"
        /\ ListOf(hookFetch.hook) = <<>>

(***************************************************************************)
(* C28: once a hook has handled SIGNED_OUT, its list stays empty and its   *)
(* user stays null until a SIGNED_IN event, even when a fetch or a re-poll *)
(* started for the previous user completes afterwards.                     *)
(***************************************************************************)
C28_UserStaysNull == lastEvent = "null" => hookUser = "null"

C28_ListStaysEmpty == lastEvent = "null" => ListOf(hookFetch.hook) = <<>>

C28_SignOutReset ==
    lastEvent = "null" => (ListOf(hookFetch.hook) = <<>> /\ hookUser = "null")

(***************************************************************************)
(* C24: the list a tracking page has loaded for a month holds every record *)
(* of the user dated on a day of that month, first to last, exactly once,  *)
(* and no record of another month.                                         *)
(***************************************************************************)
InMonth(d, ym) == PeriodOfDate(d) = PeriodIdx(ym[1], ym[2])

OfMonth(tbl, ym) == {r \in tbl : r.user_id = Me /\ InMonth(r.date, ym)}

IdsOf(list) == {list[k].id : k \in 1..Len(list)}

C24_IncomeRoundTrip ==
    (route = "IncomeTracking" /\ calls = IncomeTrackingCalls /\ pageError = NoError
        /\ viewMode = "monthly")
        => /\ IdsOf(records) = {r.id : r \in OfMonth(incomeTbl, selectedMonth)}
           /\ Len(records) = Cardinality(IdsOf(records))

C24_ExpenseRoundTrip ==
    (route = "ExpenseTracking" /\ calls = ExpenseTrackingCalls /\ pageError = NoError
        /\ viewMode = "monthly")
        => /\ IdsOf(trackExpenses) = {r.id : r \in OfMonth(expenseTbl, selectedMonth)}
           /\ Len(trackExpenses) = Cardinality(IdsOf(trackExpenses))

C24_RoundTrip == C24_IncomeRoundTrip /\ C24_ExpenseRoundTrip

(***************************************************************************)
(* C25: after any sequence and interleaving of Dashboard loads the user    *)
(* has at most one income source named 'Balance Carryover', and a load     *)
(* creates the source only when its lookup found none in the table.        *)
(***************************************************************************)
MyCarryoverSources == {s \in sourceTbl : s.user_id = Me /\ s.name = CarryoverName}

\* a source is created only by an invocation whose lookup returned nothing
C25_CreatesOnlyAfterEmptyLookup ==
    [][sourceTbl' # sourceTbl
          => \E f \in Loads : fetch[f].pc = "create" /\ fetch[f].sources = {}
                               /\ fetch'[f].pc = "income"]_allVars

C25_AtMostOne == Cardinality(MyCarryoverSources) <= 1

\* the user's carryover records reference one source
C25_RowsUseOneSource ==
    Cardinality({r.source_id : r \in {x \in incomeTbl : x.user_id = Me
                                        /\ x.source_id \in MyCarryoverSourceIds}}) <= 1

C25_ReservedSourceUnique == C25_AtMostOne /\ C25_RowsUseOneSource

(***************************************************************************)
(* C26: after any sequence of Dashboard views, one at a time and in any    *)
(* order, a month that holds carryover rows holds for every account type   *)
(* one row whose amount is the current balance of that account type in the *)
(* preceding month (that month's own carryover rows counted) when the      *)
(* balance is positive, and no row of that account type otherwise.         *)
(***************************************************************************)
CarryoverOf(p, a) == RowsOfAccount(CarryoverRows(incomeTbl, p), a)

C26_CrossPeriodConsistent ==
    (Quiet /\ insertFailed = {})
        => \A p \in Window :
              CarryoverRows(incomeTbl, p) # {}
                  => \A a \in AccountNames :
                        IF StoredBalance(p - 1, a) > 0
                        THEN /\ Cardinality(CarryoverOf(p, a)) = 1
                             /\ \A r \in CarryoverOf(p, a) :
                                   r.amount = StoredBalance(p - 1, a)
                        ELSE CarryoverOf(p, a) = {}

(***************************************************************************)
(* C27: handleSyncCarryover deletes exactly the signed-in user's income    *)
(* rows of the reserved source dated the first day of the selected month   *)
(* and leaves every other row of every table as it is; it deletes nothing  *)
(* when no user is signed in or no reserved source exists; and once the    *)
(* reload that follows has finished its loads, the selected month holds    *)
(* the carryover rows an evaluation from the preceding month's current     *)
(* records produces.                                                       *)
(***************************************************************************)
C27_Selected == PeriodIdx(sync.year, sync.month)

\* the delete that succeeded removed the named rows and nothing else
C27_DeletesExactly ==
    [][(sync.pc = "delete" /\ sync'.pc = "reloaded" /\ ~sync'.failed)
          => /\ incomeTbl' = incomeTbl \ {r \in incomeTbl :
                                            /\ r.user_id = Me
                                            /\ r.source_id \in MyCarryoverSourceIds
                                            /\ r.date = startDateOf(currentYear, currentMonth)}
             /\ expenseTbl' = expenseTbl
             /\ sourceTbl' = sourceTbl]_allVars

\* every other step of the handler, the returns without user or source among
\* them, leaves the tables alone
C27_OtherStepsDeleteNothing ==
    [][(sync' # sync /\ ~(sync.pc = "delete" /\ ~sync'.failed))
          => UNCHANGED <<incomeTbl, expenseTbl, sourceTbl>>]_allVars

\* the loads of the reload are over, none failed, nobody navigated
C27_ReloadSettled ==
    /\ sync.pc = "reloaded"
    /\ ~sync.failed
    /\ Quiet
    /\ accountTypes = UserAccountTypes
    /\ error = NoError
    /\ insertFailed = {}
    /\ PeriodIdx(currentYear, currentMonth) = TodayPeriod

C27_Reevaluated ==
    C27_ReloadSettled
        => \A a \in AccountNames :
              IF StoredBalance(C27_Selected - 1, a) > 0
              THEN /\ Cardinality(CarryoverOf(C27_Selected, a)) = 1
                   /\ \A r \in CarryoverOf(C27_Selected, a) :
                         r.amount = StoredBalance(C27_Selected - 1, a)
              ELSE CarryoverOf(C27_Selected, a) = {}

C27_SyncCarryover ==
    /\ C27_DeletesExactly
    /\ C27_OtherStepsDeleteNothing
    /\ []C27_Reevaluated

\* the same for a click on the month the reload shows
C27_ReevaluatedToday == (C27_Selected = TodayPeriod) => C27_Reevaluated

(***************************************************************************)
(* C29: handlePrevMonth and handleNextMonth keep currentMonth in 1..12;    *)
(* handleNextMonth from December sets January of the next year and         *)
(* handlePrevMonth from January sets December of the year before; each     *)
(* undoes the other; and the month the carryover reads as the preceding    *)
(* one of (year, month) is the month handlePrevMonth sets from there.      *)
(***************************************************************************)
\* the years the navigation is evaluated for
NavYears == (StartYear - 1)..(StartYear + 1)

C29_MonthInRange == currentMonth \in 1..12

\* what a click on one of the two buttons does to the selected month
C29_Step ==
    /\ handleNextMonth
          => /\ PeriodIdx(currentYear', currentMonth')
                    = PeriodIdx(currentYear, currentMonth) + 1
             /\ currentMonth = 12
                    => currentMonth' = 1 /\ currentYear' = currentYear + 1
    /\ handlePrevMonth
          => /\ PeriodIdx(currentYear', currentMonth')
                    = PeriodIdx(currentYear, currentMonth) - 1
             /\ currentMonth = 1
                    => currentMonth' = 12 /\ currentYear' = currentYear - 1

\* the same for every month of the year, whatever month is selected
C29_EveryMonth ==
    \A y \in NavYears, m \in 1..12 :
        /\ PrevMonthOf(y, m)[2] \in 1..12
        /\ NextMonthOf(y, m)[2] \in 1..12
        /\ NextMonthOf(y, 12) = <<y + 1, 1>>
        /\ PrevMonthOf(y, 1) = <<y - 1, 12>>
        /\ NextMonthOf(PrevMonthOf(y, m)[1], PrevMonthOf(y, m)[2]) = <<y, m>>
        /\ PrevMonthOf(NextMonthOf(y, m)[1], NextMonthOf(y, m)[2]) = <<y, m>>
        /\ prevStartOf(y, m) = startDateOf(PrevMonthOf(y, m)[1], PrevMonthOf(y, m)[2])

\* the income an invocation reads as that of the preceding month is the income
\* of the month handlePrevMonth sets from the invocation's month
C29_CarryoverReadsPrev ==
    \A f \in Loads :
        (fetch[f].pc = "prevInc" /\ fetch'[f].pc = "prevExp")
            => fetch'[f].prevInc
                  = RowsOfPeriod(incomeTbl,
                                 PeriodIdx(PrevMonthOf(fetch[f].year, fetch[f].month)[1],
                                           PrevMonthOf(fetch[f].year, fetch[f].month)[2]))

C30_InBounds ==
    /\ currentPage >= 1
    /\ currentPage <= (IF totalPages(trackExpenses) > 1 THEN totalPages(trackExpenses) ELSE 1)

C30_NoEmptyPage ==
    Len(trackExpenses) > 0 => Len(currentExpenses(trackExpenses, currentPage)) > 0

C30_ResetOnChange ==
    [][(viewMode' # viewMode \/ selectedMonth' # selectedMonth) => currentPage' = 1]_allVars

C30_PaginationBounds ==
    /\ [](C30_InBounds /\ C30_NoEmptyPage)
    /\ C30_ResetOnChange

\* the same without deletes
C30_BoundsBeforeDelete == writes = 0 => (C30_InBounds /\ C30_NoEmptyPage)

====
